---- MODULE Spec2Model ----
(***************************************************************************)
(* FileDrop: the receiver's resumable-transfer engine (ReceiverThread.run) *)
(* and the transfer sender (SenderThread.run) of src/FileDrop.py, over a   *)
(* destination directory and one TCP connection at a time.                 *)
(*                                                                         *)
(* A path of the destination directory is its file name, a string.  A      *)
(* file name sent by a peer is the record [stem, ext] that pathlib splits  *)
(* it into (Path.stem, Path.suffix); Name(fn) is the string on the wire.   *)
(* A file content is a sequence of bytes.                                  *)
(***************************************************************************)
EXTENDS Integers, Sequences, FiniteSets, TLC

\* ---- bounds of the model ----
\* largest filesize a sender announces
MaxSize == 2
\* transfer connections made to the receiver in one behaviour
MaxConns == 2
\* Cancel connections in one behaviour
MaxCancels == 1
\* chunks the socket buffers hold before sendall blocks
MaxInFlight == 1
\* receiver restarts (Stop/Start Receiver) in one behaviour
MaxRestarts == 1
\* bytes per recv()/read(): BUFFER_SIZE of FileDrop.py:23, scaled down
BUFFER_SIZE == 1

\* the files a sender may hold under one name: two documents of every size,
\* each byte stamped with its document and its position (neither side ever
\* looks into the payload)
Docs == {1, 2}
\* the file names peers send
FileNames == { [stem |-> "a", ext |-> ".txt"] }

\* ---- program constants ----
NOTE_HEADER == 1313821765
RESUME_HEADER == 1380275021
CANCEL_HEADER == 1129202508

VARIABLES
    disk,       \* save_dir: file name -> content, for the files that exist
    partials,   \* ReceiverThread._partials: <<filename, filesize>> -> [part, final]
    rcv,        \* ReceiverThread.run: position and locals of the handler
    snd,        \* SenderThread.run: position and locals
    chan,       \* the TCP connection: header sent, bytes in flight, reply, closes
    cur,        \* history: the connection being served, or served last
    pre,        \* history: the connection served before cur
    nconn,      \* transfer connections made so far
    ncancel,    \* Cancel connections made so far
    nrestart,   \* restarts so far
    nt,         \* ReceiverThread.run serving Note connections: backlog, handler, notes surfaced
    reg,        \* UnifiedWidget: peer registry, selection, clock, ANNOUNCE_INTERVAL
    thr,        \* ReceiverThread / ListenerThread and the stop() calls of the GUI thread
    web,        \* FileDrop_Web/server.py: STATE, storage directory, responses
    cfg         \* the settings globals ANNOUNCE_INTERVAL and TCP_PORT

\* the variables of the transfer engine, and those of the other components
xferVars == <<disk, partials, rcv, snd, chan, cur, pre, nconn, ncancel, nrestart>>
appVars == <<nt, reg, thr, web, cfg>>
vars == <<disk, partials, rcv, snd, chan, cur, pre, nconn, ncancel, nrestart,
          nt, reg, thr, web, cfg>>

\* ---- contents ----
Doc(v, k) == [i \in 1..k |-> 10 * v + i]
Contents == { Doc(v, k) : v \in Docs, k \in 0..MaxSize }
Min(a, b) == IF a < b THEN a ELSE b
Take(s, n) == SubSeq(s, 1, n)
Drop(s, n) == SubSeq(s, n + 1, Len(s))

\* ---- paths (pathlib) ----
Name(fn) == fn.stem \o fn.ext
\* f"{base} ({counter}){ext}"
Numbered(fn, counter) == fn.stem \o " (" \o ToString(counter) \o ")" \o fn.ext
\* p.with_suffix(p.suffix + ".part")
WithPartSuffix(p) == p \o ".part"

\* ---- the file system ----
Exists(d, p) == p \in DOMAIN d
Put(d, p, c) == [q \in DOMAIN d \cup {p} |-> IF q = p THEN c ELSE d[q]]
Remove(d, p) == [q \in DOMAIN d \ {p} |-> d[q]]
Unlink(d, p) == Remove(d, p)
Size(d, p) == Len(d[p])
\* open(p, "wb") truncates or creates; open(p, "ab") keeps or creates
OpenFile(d, p, mode) ==
    IF mode = "wb" THEN Put(d, p, <<>>)
    ELSE IF Exists(d, p) THEN d ELSE Put(d, p, <<>>)
\* f.write(chunk) on a file opened at its end
WriteChunk(d, p, chunk) == Put(d, p, d[p] \o chunk)
\* Path.replace: rename, replacing the target
Replace(d, from, to) == Remove(Put(d, to, d[from]), from)

EmptyMap == [x \in {} |-> <<>>]

\* ---- final-name allocation ----
\* FileDrop.py:278-281: while dest.exists(): dest = parent / f"{base} ({counter}){ext}"
RECURSIVE FreshLoop(_, _, _, _)
FreshLoop(d, fn, dest, counter) ==
    IF Exists(d, dest) THEN FreshLoop(d, fn, Numbered(fn, counter), counter + 1)
    ELSE dest

FreshDestOverwrite(d, fn) == Name(fn)
\* FileDrop.py:272-281: the unique final name of a fresh transfer
FreshDest(d, fn) == FreshLoop(d, fn, Name(fn), 1)

\* FileDrop.py:218-220: while final_path.exists() or (parent / f"{base} ({counter}){ext}").exists()
RECURSIVE ResumeLoop(_, _, _, _)
ResumeLoop(d, fn, final, counter) ==
    IF Exists(d, final) \/ Exists(d, Numbered(fn, counter))
    THEN ResumeLoop(d, fn, Numbered(fn, counter), counter + 1)
    ELSE final

\* FileDrop.py:214-220: the final name a Resume allocates when it starts a new partial
ResumeDest(d, fn) == ResumeLoop(d, fn, Name(fn), 1)

\* ---- the partial table ----
Key(fn, size) == <<Name(fn), size>>
Entry(part, final) == [part |-> part, final |-> final]
RegisterNothing(tbl, key, part, final) == tbl
\* self._partials[key] = {"part": part, "final": final}
Register(tbl, key, part, final) ==
    [k \in DOMAIN tbl \cup {key} |-> IF k = key THEN Entry(part, final) ELSE tbl[k]]
\* self._partials.pop(key, None)
Pop(tbl, key) == [k \in DOMAIN tbl \ {key} |-> tbl[k]]

\* ---- Resume: lookup of (filename, filesize), FileDrop.py:194-222 ----
\* The outcome: which branch was taken, the paths, the table afterwards.
\*   "entry"    195-198  the table has the key and its partial file exists
\*   "adopt"    201-204  the derived .part file exists: it becomes the entry
\*   "complete" 208-211  the plain final file exists with exactly filesize bytes
\*   "new"      212-222  a new final name and partial path are allocated
ResumeLookup(d, tbl, fn, size) ==
    LET key == Key(fn, size)
        final0 == Name(fn)
        part0 == WithPartSuffix(final0)
        has == Exists(d, part0)
        tbl1 == IF has THEN Register(tbl, key, part0, final0) ELSE tbl
        final1 == ResumeDest(d, fn)
    IN  IF key \in DOMAIN tbl /\ Exists(d, tbl[key].part)
        THEN [branch |-> "entry", part |-> tbl[key].part, final |-> tbl[key].final,
              tbl |-> tbl]
        ELSE IF Exists(d, final0) /\ Size(d, final0) = size
        THEN [branch |-> "complete", part |-> IF has THEN part0 ELSE "",
              final |-> final0, tbl |-> tbl1]
        ELSE IF ~has
        THEN [branch |-> "new", part |-> WithPartSuffix(final1), final |-> final1,
              tbl |-> Register(tbl1, key, WithPartSuffix(final1), final1)]
        ELSE [branch |-> "adopt", part |-> part0, final |-> final0, tbl |-> tbl1]

\* a receiver that always asks for the whole file
ResumeOffsetZero(d, part) == 0
\* FileDrop.py:223: offset = part_path.stat().st_size if part_path.exists() else 0
ResumeOffset(d, part) == IF Exists(d, part) THEN Size(d, part) ELSE 0

ResumeModeTruncate(offset) == "wb"
\* FileDrop.py:227: mode = "ab" if offset else "wb"
ResumeMode(offset) == IF offset # 0 THEN "ab" ELSE "wb"

FreshModeAppend == "ab"
\* FileDrop.py:288: open(part_dest, "wb")
FreshMode == "wb"

\* ---- Cancel, FileDrop.py:246-266 ----
\* to_delete = [k for k in self._partials.keys() if k[0] == filename]
ToDelete(tbl, fn) == { k \in DOMAIN tbl : k[1] = Name(fn) }
CancelTable(tbl, fn) == [k \in DOMAIN tbl \ ToDelete(tbl, fn) |-> tbl[k]]
\* every popped entry's partial file, and the derived .part file, are unlinked
CancelDisk(d, tbl, fn) ==
    LET victims == { tbl[k].part : k \in ToDelete(tbl, fn) }
                   \cup { WithPartSuffix(Name(fn)) }
    IN  [q \in DOMAIN d \ victims |-> d[q]]

\* ---- frame selector, FileDrop.py:171, 189, 246, 268 ----
Decode(header) ==
    IF header = NOTE_HEADER THEN "note"
    ELSE IF header = RESUME_HEADER THEN "resume"
    ELSE IF header = CANCEL_HEADER THEN "cancel"
    ELSE "fresh"

\* ---- initial values ----
NoName == [stem |-> "", ext |-> ""]
NoKey == <<"", 0>>

RcvInit == [pc |-> "accept", kind |-> "none", fn |-> NoName, size |-> 0, key |-> NoKey,
            part |-> "", final |-> "", offset |-> 0, received |-> 0]

SndInit == [pc |-> "idle", resume |-> FALSE, fn |-> NoName, src |-> <<>>, sent |-> 0,
            offset |-> -1, status |-> "", id |-> 0, payload |-> 0]

ChanInit == [st |-> "none", id |-> 0, header |-> 0, fn |-> NoName, size |-> 0,
             fault |-> "none", src |-> <<>>, data |-> <<>>, eof |-> FALSE,
             reply |-> -1, rclosed |-> FALSE]

\* history of one connection, as the receiver served it
CurInit == [id |-> 0, kind |-> "none", name |-> "", size |-> 0, key |-> NoKey,
            src |-> <<>>, part |-> "", final |-> "", offset |-> -1, status |-> "none",
            got |-> <<>>, disk0 |-> EmptyMap, removed |-> {},
            hadEntry |-> FALSE, branch |-> "", freshFinal |-> "",
            restarted |-> FALSE]

\* what is kept of a connection once the next one is accepted
Summary(c, d) ==
    [kind |-> c.kind, key |-> c.key, src |-> c.src, status |-> c.status,
     part |-> c.part, final |-> c.final, removed |-> c.removed,
     restarted |-> c.restarted]

\* ReceiverThread.run before the first Note connection: nothing waits in the
\* listen backlog, the thread is in accept(), no note was surfaced.  log keeps
\* what every peer sent, disk0 and tbl0 the directory and the table at the start.
NoConn == [id |-> 0, len |-> 0, bytes |-> <<>>, said |-> <<>>, gui |-> FALSE]
NtInit == [backlog |-> <<>>, pc |-> "accept", conn |-> NoConn, rest |-> <<>>,
           note_data |-> <<>>, serving |-> {}, new_note |-> <<>>, log |-> <<>>,
           disk0 |-> EmptyMap, tbl0 |-> EmptyMap]

\* DEFAULT_SETTINGS, FileDrop.py:22-26; a time unit of the model is one second
ANNOUNCE_INTERVAL == 2
TCP_PORT == 5001
CfgInit == [ANNOUNCE_INTERVAL |-> ANNOUNCE_INTERVAL, TCP_PORT |-> TCP_PORT]

\* the addresses announced on the network; the first is this host's own
CurrentIp == "10.0.0.1"
Ips == {"10.0.0.1", "10.0.0.2", "10.0.0.3"}

\* UnifiedWidget.__init__, FileDrop.py:612-620: no peer, nothing selected.
\* peers maps an address to last_seen, list is the addresses in list_widget,
\* now is time.time().  History: heard is when an address was last announced
\* (-1: never), regular whether it has been announced at least once per
\* ANNOUNCE_INTERVAL ever since, last the handler that ran last, deselected
\* whether that handler cleared the selection.  current_ip is _current_ip
\* (FileDrop.py:620), local_ip what get_local_ip() returns at present.
RegInit == [peers |-> EmptyMap, list |-> {}, chosen |-> "", now |-> 0,
            heard |-> [ip \in Ips |-> -1], regular |-> [ip \in Ips |-> TRUE],
            last |-> "init", deselected |-> FALSE,
            current_ip |-> CurrentIp, local_ip |-> CurrentIp]
\* UnifiedWidget.__init__, FileDrop.py:613-617: the listener runs, blocked in
\* recvfrom; there is no receiver thread.  gui is where the GUI thread is
\* (idle, or inside a stop() call), rpc / lpc where the receiver and the
\* listener threads are, port the port the receiver listens on, wake whether
\* stop()'s own connection waits in the backlog, dgrams the datagrams waiting
\* in the listener's socket.
ThrInit == [gui |-> "idle", rpc |-> "none", running |-> TRUE, port |-> 0,
            wake |-> FALSE, nstop |-> 0, lpc |-> "recvfrom", lrunning |-> TRUE,
            dgrams |-> 0, ndgram |-> 0]
\* server.py:26-33, STATE: no client, an empty index, no access code; files is
\* the storage directory (name -> size), nup counts uploads, last records the
\* last upload request: what it supplied, the state it met (receiving0: the
\* client ids of the sessions that could receive) and its response: the
\* status, the name stored, the sessions the push reached (pushed) and those
\* whose send failed.
NoUpload == [op |-> "none", client_id |-> "", supplied |-> "", target_ids |-> <<>>,
             receiving0 |-> {}, files0 |-> EmptyMap, index0 |-> EmptyMap,
             status |-> 0, name |-> "", pushed |-> {}, failed |-> {}]
\* the last channel message handled: its kind (op), for a kick the session
\* that sent it (by), for a first message its type and code; and what the
\* handler did: whether it sent a welcome, the close code it sent (0: none),
\* the session it closed (target), whether it broadcast the roster and
\* whether the sender's channel is still served (open); for a note the
\* session ids its "to" field lists and the sessions it was sent to
NoEvent == [op |-> "none", by |-> "", first |-> "", code |-> "", welcome |-> FALSE,
            close |-> 0, target |-> "", roster |-> FALSE, open |-> FALSE,
            list |-> {}, sent |-> {}]
\* the last roster broadcast: its items and the sessions that received it
NoRoster == [items |-> EmptyMap, to |-> {}]
\* the last response to a listing or a delete request: the status and the
\* names listed
NoResponse == [op |-> "none", status |-> 0, names |-> {}]
\* a roster broadcast followed send by send (bc): the session whose handler
\* runs it (by), the sessions its loop has still to visit (todo), the size the
\* registry had when the loop began, the sessions registered then (rcpt),
\* those that got the message (sent) and those whose send failed (dead)
NoBroadcast == [status |-> "idle", by |-> "", todo |-> <<>>, size |-> 0,
                rcpt |-> {}, sent |-> {}, dead |-> {}]
\* an upload request followed step by step (up): where its handler is (st),
\* the name it was given in the storage directory (dest), the chunks its body
\* has (total) and those written so far (wrote), the uploader's client id, the
\* resolved targets and the status it was answered with (0: not yet)
NoUp == [st |-> "idle", dest |-> "", total |-> 0, wrote |-> 0, client_id |-> "",
         targets |-> <<>>, all |-> FALSE, status |-> 0]
UploadSlots == {"u1", "u2"}
WebInit == [access_code |-> "", clients |-> EmptyMap, files |-> EmptyMap,
            file_index |-> EmptyMap, nup |-> 0, last |-> NoUpload,
            ev |-> NoEvent, roster |-> NoRoster, resp |-> NoResponse,
            bc |-> NoBroadcast, up |-> [u \in UploadSlots |-> NoUp]]

\* the destination directory when the receiver starts: empty, or holding one
\* earlier download under a plain or a numbered name
InitContents == { Doc(1, k) : k \in 1..MaxSize }
InitDirs ==
    {EmptyMap} \cup
    { [q \in {p} |-> c] : p \in { Name(fn) : fn \in FileNames }
                               \cup { Numbered(fn, 1) : fn \in FileNames },
                          c \in InitContents }

Init ==
    /\ disk \in InitDirs
    /\ partials = EmptyMap
    /\ rcv = RcvInit
    /\ snd = SndInit
    /\ chan = ChanInit
    /\ cur = CurInit
    /\ pre = Summary(CurInit, EmptyMap)
    /\ nconn = 0
    /\ ncancel = 0
    /\ nrestart = 0
    /\ nt = NtInit
    /\ reg = RegInit
    /\ thr = ThrInit
    /\ web = WebInit
    /\ cfg = CfgInit

\* ---- peers ----
\* no connection is in progress: the last one is over on both sides
ConnFree ==
    /\ rcv.pc = "accept"
    /\ chan.st = "none" \/ (chan.rclosed /\ snd.pc \in {"idle", "done"})

NewChan(header, fn, size, src, fault, eof) ==
    [ChanInit EXCEPT !.st = "pending", !.id = nconn + ncancel + 1, !.header = header, !.fn = fn,
                     !.size = size, !.src = src, !.fault = fault, !.eof = eof]

\* SenderThread.run, FileDrop.py:327-344 and 371-373: connect and send the header
SenderStart(fn, src, resume) ==
    /\ ConnFree
    /\ nconn < MaxConns
    /\ chan' = NewChan(IF resume THEN RESUME_HEADER ELSE Len(Name(fn)), fn, Len(src),
                       src, "none", FALSE)
    /\ snd' = [SndInit EXCEPT !.pc = IF resume THEN "wait" ELSE "send",
                              !.resume = resume, !.fn = fn, !.src = src,
                              !.id = nconn + ncancel + 1]
    /\ nconn' = nconn + 1
    /\ UNCHANGED <<disk, partials, rcv, cur, pre, ncancel, nrestart>>
    /\ UNCHANGED appVars

\* FileDrop.py:345-352: the 8-byte offset reply
SenderGetOffset ==
    /\ snd.pc = "wait"
    /\ chan.id = snd.id
    /\ chan.reply >= 0
    /\ IF chan.reply >= Len(snd.src)
       THEN /\ snd' = [snd EXCEPT !.pc = "done", !.offset = chan.reply,
                                  !.status = "already"]
            /\ chan' = [chan EXCEPT !.eof = TRUE]
       ELSE /\ snd' = [snd EXCEPT !.pc = "send", !.offset = chan.reply,
                                  !.sent = chan.reply]
            /\ chan' = chan
    /\ UNCHANGED <<disk, partials, rcv, cur, pre, nconn, ncancel, nrestart>>
    /\ UNCHANGED appVars

\* FileDrop.py:345-347: recv returns fewer than 8 bytes, the receiver closed
SenderNoOffset ==
    /\ snd.pc = "wait"
    /\ chan.id = snd.id
    /\ chan.rclosed
    /\ chan.reply < 0
    /\ snd' = [snd EXCEPT !.pc = "done", !.status = "failed"]
    /\ chan' = [chan EXCEPT !.eof = TRUE]
    /\ UNCHANGED <<disk, partials, rcv, cur, pre, nconn, ncancel, nrestart>>
    /\ UNCHANGED appVars

\* the chunk f.read(BUFFER_SIZE) returns at file position pos
ReadChunk(src, pos) == SubSeq(src, pos + 1, Min(pos + BUFFER_SIZE, Len(src)))

\* FileDrop.py:356-361 and 376-381: read a chunk, sendall
SenderChunk ==
    /\ snd.pc = "send"
    /\ snd.sent < Len(snd.src)
    /\ chan.rclosed \/ Len(chan.data) < MaxInFlight * BUFFER_SIZE
    /\ LET chunk == ReadChunk(snd.src, snd.sent)
       IN  /\ snd' = [snd EXCEPT !.sent = @ + Len(chunk), !.payload = @ + Len(chunk)]
           /\ chan' = IF chan.rclosed THEN chan
                      ELSE [chan EXCEPT !.data = @ \o chunk]
    /\ UNCHANGED <<disk, partials, rcv, cur, pre, nconn, ncancel, nrestart>>
    /\ UNCHANGED appVars

\* FileDrop.py:366-369 and 386-388: end of file, close
SenderClose ==
    /\ snd.pc = "send"
    /\ snd.sent >= Len(snd.src)
    /\ snd' = [snd EXCEPT !.pc = "done",
                          !.status = IF snd.resume THEN "resumed" ELSE "sent"]
    /\ chan' = [chan EXCEPT !.eof = TRUE]
    /\ UNCHANGED <<disk, partials, rcv, cur, pre, nconn, ncancel, nrestart>>
    /\ UNCHANGED appVars

\* FileDrop.py:389-390: any exception aborts the send; the socket is closed
SenderFail ==
    /\ snd.pc \in {"wait", "send"}
    /\ snd' = [snd EXCEPT !.pc = "done", !.status = "failed"]
    /\ chan' = [chan EXCEPT !.eof = TRUE]
    /\ UNCHANGED <<disk, partials, rcv, cur, pre, nconn, ncancel, nrestart>>
    /\ UNCHANGED appVars

\* UnifiedWidget._discard_last_transfer, FileDrop.py:966-974
SendCancel(fn) ==
    /\ ConnFree
    /\ ncancel < MaxCancels
    /\ chan' = NewChan(CANCEL_HEADER, fn, 0, <<>>, "none", TRUE)
    /\ ncancel' = ncancel + 1
    /\ UNCHANGED <<disk, partials, rcv, snd, cur, pre, nconn, nrestart>>
    /\ UNCHANGED appVars

\* the filename length a faulty peer announces in a fresh-transfer header
NameLen == Len("a.txt")

\* a peer that stops in the middle of the header fields, or sends a filename
\* that is not UTF-8
PeerFaults == {"short_header", "closed_after_tag", "closed_in_name", "closed_in_size",
               "bad_utf8"}
FaultFits(kind, fault) ==
    \/ fault \in {"short_header", "closed_in_name", "bad_utf8"}
    \/ fault = "closed_after_tag" /\ kind \in {"resume", "cancel"}
    \/ fault = "closed_in_size" /\ kind \in {"resume", "fresh"}

BadPeer(header, fault) ==
    /\ ConnFree
    /\ nconn < MaxConns
    /\ FaultFits(Decode(header), fault)
    /\ chan' = NewChan(header, NoName, 0, <<>>, fault, TRUE)
    /\ nconn' = nconn + 1
    /\ UNCHANGED <<disk, partials, rcv, snd, cur, pre, ncancel, nrestart>>
    /\ UNCHANGED appVars

\* ---- the receiver, ReceiverThread.run ----
Pending == rcv.pc = "accept" /\ chan.st = "pending"

Begin(kind, fn, size) ==
    LET key == Key(fn, size)
    IN  [CurInit EXCEPT !.id = chan.id, !.kind = kind, !.name = Name(fn),
                        !.size = size, !.key = key, !.src = chan.src, !.disk0 = disk,
                        !.hadEntry = key \in DOMAIN partials
                                     /\ Exists(disk, partials[key].part)]

Serving(kind, fn, size, part, final, offset) ==
    [pc |-> "recv", kind |-> kind, fn |-> fn, size |-> size, key |-> Key(fn, size),
     part |-> part, final |-> final, offset |-> offset, received |-> offset]

\* the uncaught exception ends run(): the thread and its listening socket are gone
Dead == [rcv EXCEPT !.pc = "dead"]

\* FileDrop.py:167-169: fewer than 4 header bytes, continue
AcceptShort ==
    /\ Pending
    /\ chan.fault = "short_header"
    /\ chan' = [chan EXCEPT !.st = "open", !.rclosed = TRUE]
    /\ pre' = Summary(cur, disk)
    /\ cur' = [CurInit EXCEPT !.id = chan.id, !.kind = "short", !.status = "closed",
                              !.disk0 = disk]
    /\ UNCHANGED <<disk, partials, rcv, snd, nconn, ncancel, nrestart>>
    /\ UNCHANGED appVars

\* FileDrop.py:190-193, 247-248, 268-271: struct.unpack of a short read raises
\* struct.error, decode() of a bad filename raises UnicodeDecodeError; nothing
\* in run() catches either
Crashes(kind, fault) ==
    \/ fault \in {"closed_after_tag", "closed_in_size", "bad_utf8"}
    \/ fault = "closed_in_name" /\ kind \in {"resume", "fresh"}

AcceptCrash ==
    /\ Pending
    /\ Crashes(Decode(chan.header), chan.fault)
    /\ rcv' = Dead
    /\ chan' = [chan EXCEPT !.st = "open", !.rclosed = TRUE]
    /\ pre' = Summary(cur, disk)
    /\ cur' = [CurInit EXCEPT !.id = chan.id, !.kind = "crash", !.status = "dead",
                              !.disk0 = disk]
    /\ UNCHANGED <<disk, partials, snd, nconn, ncancel, nrestart>>
    /\ UNCHANGED appVars

\* FileDrop.py:246-266
AcceptCancel ==
    /\ Pending
    /\ Decode(chan.header) = "cancel"
    /\ chan.fault \in {"none", "closed_in_name"}
    /\ LET fn == IF chan.fault = "none" THEN chan.fn ELSE NoName
       IN  /\ partials' = CancelTable(partials, fn)
           /\ disk' = CancelDisk(disk, partials, fn)
           /\ cur' = [Begin("cancel", fn, 0) EXCEPT
                        !.status = "discarded",
                        !.removed = { <<k, partials[k].part>> :
                                        k \in { e \in ToDelete(partials, fn) :
                                                  Exists(disk, partials[e].part) } }]
    /\ pre' = Summary(cur, disk)
    /\ chan' = [chan EXCEPT !.st = "open", !.rclosed = TRUE]
    /\ UNCHANGED <<rcv, snd, nconn, ncancel, nrestart>>
    /\ UNCHANGED appVars

\* FileDrop.py:239-242 and 299-302: part.replace(final); self._partials.pop(key)
CompleteDisk(d, part, final) == Replace(d, part, final)
CompleteTable(tbl, key) == Pop(tbl, key)

\* FileDrop.py:267-304, up to the first recv of the payload loop
AcceptFresh(diskOk) ==
    /\ Pending
    /\ Decode(chan.header) = "fresh"
    /\ chan.fault = "none"
    /\ LET fn == chan.fn
           size == chan.size
           key == Key(fn, size)
           dest == FreshDest(disk, fn)
           part_dest == WithPartSuffix(dest)
           tbl1 == Register(partials, key, part_dest, dest)
           d1 == OpenFile(disk, part_dest, FreshMode)
           c == [Begin("fresh", fn, size) EXCEPT !.part = part_dest, !.final = dest]
       IN  IF ~diskOk
           THEN \* open() raises OSError after the entry was registered
                /\ partials' = tbl1
                /\ disk' = disk
                /\ rcv' = Dead
                /\ cur' = [c EXCEPT !.status = "dead"]
                /\ chan' = [chan EXCEPT !.st = "open", !.rclosed = TRUE]
           ELSE IF 0 >= size
           THEN /\ disk' = CompleteDisk(d1, part_dest, dest)
                /\ partials' = CompleteTable(tbl1, key)
                /\ rcv' = rcv
                /\ cur' = [c EXCEPT !.status = "saved"]
                /\ chan' = [chan EXCEPT !.st = "open", !.rclosed = TRUE]
           ELSE /\ disk' = d1
                /\ partials' = tbl1
                /\ rcv' = Serving("fresh", fn, size, part_dest, dest, 0)
                /\ cur' = [c EXCEPT !.status = "recv"]
                /\ chan' = [chan EXCEPT !.st = "open"]
    /\ pre' = Summary(cur, disk)
    /\ UNCHANGED <<snd, nconn, ncancel, nrestart>>
    /\ UNCHANGED appVars

\* FileDrop.py:189-245, up to the first recv of the payload loop
AcceptResume(diskOk) ==
    /\ Pending
    /\ Decode(chan.header) = "resume"
    /\ chan.fault = "none"
    /\ LET fn == chan.fn
           size == chan.size
           key == Key(fn, size)
           r == ResumeLookup(disk, partials, fn, size)
           offset == ResumeOffset(disk, r.part)
           d1 == OpenFile(disk, r.part, ResumeMode(offset))
           c == [Begin("resume", fn, size) EXCEPT
                    !.part = r.part, !.final = r.final, !.branch = r.branch,
                    !.freshFinal = FreshDest(disk, fn)]
       IN  IF r.branch = "complete"
           THEN /\ partials' = r.tbl
                /\ disk' = disk
                /\ rcv' = rcv
                /\ cur' = [c EXCEPT !.status = "complete", !.offset = size]
                /\ chan' = [chan EXCEPT !.st = "open", !.rclosed = TRUE,
                                        !.reply = size]
           ELSE IF ~diskOk
           THEN /\ partials' = r.tbl
                /\ disk' = disk
                /\ rcv' = Dead
                /\ cur' = [c EXCEPT !.status = "dead", !.offset = offset]
                /\ chan' = [chan EXCEPT !.st = "open", !.rclosed = TRUE,
                                        !.reply = offset]
           ELSE IF offset >= size
           THEN /\ disk' = CompleteDisk(d1, r.part, r.final)
                /\ partials' = CompleteTable(r.tbl, key)
                /\ rcv' = rcv
                /\ cur' = [c EXCEPT !.status = "saved", !.offset = offset]
                /\ chan' = [chan EXCEPT !.st = "open", !.rclosed = TRUE,
                                        !.reply = offset]
           ELSE /\ disk' = d1
                /\ partials' = r.tbl
                /\ rcv' = Serving("resume", fn, size, r.part, r.final, offset)
                /\ cur' = [c EXCEPT !.status = "recv", !.offset = offset]
                /\ chan' = [chan EXCEPT !.st = "open", !.reply = offset]
    /\ pre' = Summary(cur, disk)
    /\ UNCHANGED <<snd, nconn, ncancel, nrestart>>
    /\ UNCHANGED appVars

\* FileDrop.py:229-242 and 289-302: one recv of the payload loop, and what
\* follows the loop when this chunk completes the file
RecvChunk(n) ==
    /\ rcv.pc = "recv"
    /\ n \in 1..Min(Min(BUFFER_SIZE, rcv.size - rcv.received), Len(chan.data))
    /\ LET chunk == Take(chan.data, n)
           d1 == WriteChunk(disk, rcv.part, chunk)
           received == rcv.received + n
       IN  IF received >= rcv.size
           THEN /\ disk' = CompleteDisk(d1, rcv.part, rcv.final)
                /\ partials' = CompleteTable(partials, rcv.key)
                /\ rcv' = [rcv EXCEPT !.pc = "accept", !.received = received]
                /\ cur' = [cur EXCEPT !.status = "saved", !.got = @ \o chunk]
                /\ chan' = [chan EXCEPT !.data = Drop(@, n), !.rclosed = TRUE]
           ELSE /\ disk' = d1
                /\ partials' = partials
                /\ rcv' = [rcv EXCEPT !.received = received]
                /\ cur' = [cur EXCEPT !.got = @ \o chunk]
                /\ chan' = [chan EXCEPT !.data = Drop(@, n)]
    /\ UNCHANGED <<snd, pre, nconn, ncancel, nrestart>>
    /\ UNCHANGED appVars

\* FileDrop.py:231-232, 243-244 and 291-292, 303-304: recv returns b"", the
\* peer closed before filesize bytes arrived
RecvEOF ==
    /\ rcv.pc = "recv"
    /\ chan.data = <<>>
    /\ chan.eof
    /\ rcv' = [rcv EXCEPT !.pc = "accept"]
    /\ cur' = [cur EXCEPT !.status = "paused"]
    /\ chan' = [chan EXCEPT !.rclosed = TRUE]
    /\ UNCHANGED <<disk, partials, snd, pre, nconn, ncancel, nrestart>>
    /\ UNCHANGED appVars

\* UnifiedWidget._toggle, FileDrop.py:1016-1029 (or a new process): a new
\* ReceiverThread with an empty table over the same directory.  stop() waits
\* for the connection being served; a connection still waiting in accept() is
\* closed unread (FileDrop.py:160-163).  A restart of a live receiver whose
\* table is empty changes nothing for the transfers and is left out.
Restart ==
    /\ rcv.pc \in {"accept", "dead"}
    /\ rcv.pc = "dead" \/ partials # EmptyMap
    /\ chan.st \in {"none", "pending"} \/ chan.rclosed
    /\ nrestart < MaxRestarts
    /\ partials' = EmptyMap
    /\ rcv' = RcvInit
    /\ chan' = IF chan.st = "pending"
               THEN [chan EXCEPT !.st = "open", !.rclosed = TRUE]
               ELSE chan
    /\ cur' = [cur EXCEPT !.restarted = TRUE]
    /\ nrestart' = nrestart + 1
    /\ UNCHANGED <<disk, snd, pre, nconn, ncancel>>
    /\ UNCHANGED appVars

Next ==
    \/ \E fn \in FileNames, src \in Contents, resume \in BOOLEAN :
           SenderStart(fn, src, resume)
    \/ SenderGetOffset
    \/ SenderNoOffset
    \/ SenderChunk
    \/ SenderClose
    \/ SenderFail
    \/ \E fn \in FileNames : SendCancel(fn)
    \/ \E header \in {RESUME_HEADER, CANCEL_HEADER, NameLen}, fault \in PeerFaults :
           BadPeer(header, fault)
    \/ AcceptShort
    \/ AcceptCrash
    \/ AcceptCancel
    \/ \E diskOk \in BOOLEAN : AcceptFresh(diskOk)
    \/ \E diskOk \in BOOLEAN : AcceptResume(diskOk)
    \/ \E n \in 1..BUFFER_SIZE : RecvChunk(n)
    \/ RecvEOF
    \/ Restart

Spec == Init /\ [][Next]_vars

\* ---- the same receiver, sent files of two names ----
\* SenderThread.run, FileDrop.py:328: fname = os.path.basename(self.path); the
\* user may send any file, also one whose name ends in .part
PartNames == FileNames \cup { [stem |-> "a.txt", ext |-> ".part"] }
\* one content of each length
PartContents == { Doc(2, k) : k \in 0..MaxSize }

NextNames ==
    \/ \E fn \in PartNames, src \in PartContents, resume \in BOOLEAN :
           SenderStart(fn, src, resume)
    \/ SenderGetOffset
    \/ SenderNoOffset
    \/ SenderChunk
    \/ SenderClose
    \/ SenderFail
    \/ \E fn \in PartNames : SendCancel(fn)
    \/ AcceptCancel
    \/ AcceptFresh(TRUE)
    \/ AcceptResume(TRUE)
    \/ \E n \in 1..BUFFER_SIZE : RecvChunk(n)
    \/ RecvEOF
    \/ Restart

SpecNames == Init /\ [][NextNames]_vars

(***************************************************************************)
(* Notes: ReceiverThread.run serving Note connections (FileDrop.py         *)
(* 159-188) that several peers make at any time; the kernel completes a    *)
(* connection into the listen backlog while the thread serves another one. *)
(***************************************************************************)
\* Note connections made in one behaviour
MaxNotes == 2
\* largest length a peer that is not the application announces
MaxNoteLen == 2

\* code points of the notes typed, and the bytes a peer may send
NoteChars == {65, 233}
NoteBytes == {65, 195, 169}
SeqsUpTo(S, n) == UNION { [1..k -> S] : k \in 0..n }
\* what the user may send: text.strip() is not empty (FileDrop.py:987-990)
NoteTexts == SeqsUpTo(NoteChars, 2) \ {<<>>}

\* str.encode(): UTF-8, one byte below U+0080, two bytes below U+0800
RECURSIVE Utf8Encode(_)
Utf8Encode(text) ==
    IF text = <<>> THEN <<>>
    ELSE LET cp == Head(text)
         IN  (IF cp < 128 THEN <<cp>>
              ELSE <<192 + (cp \div 64), 128 + (cp % 64)>>) \o Utf8Encode(Tail(text))

\* bytes.decode(): strict UTF-8 over one- and two-byte sequences; ok is FALSE
\* where Python raises UnicodeDecodeError
RECURSIVE Utf8Decode(_)
Utf8Decode(bytes) ==
    IF bytes = <<>> THEN [ok |-> TRUE, text |-> <<>>]
    ELSE LET b == Head(bytes)
         IN  IF b < 128
             THEN LET r == Utf8Decode(Tail(bytes))
                  IN  [ok |-> r.ok, text |-> <<b>> \o r.text]
             ELSE IF b >= 194 /\ b <= 223 /\ Len(bytes) >= 2
                     /\ bytes[2] >= 128 /\ bytes[2] <= 191
             THEN LET r == Utf8Decode(Tail(Tail(bytes)))
                  IN  [ok |-> r.ok,
                       text |-> <<(b - 192) * 64 + (bytes[2] - 128)>> \o r.text]
             ELSE [ok |-> FALSE, text |-> <<>>]

\* decode(errors="ignore") would drop the bytes that do not decode
RECURSIVE NoteTextLossy(_)
NoteTextLossy(bytes) ==
    IF bytes = <<>> THEN <<>>
    ELSE IF Utf8Decode(<<Head(bytes)>>).ok
    THEN <<Head(bytes)>> \o NoteTextLossy(Tail(bytes))
    ELSE IF Len(bytes) >= 2 /\ Utf8Decode(Take(bytes, 2)).ok
    THEN Utf8Decode(Take(bytes, 2)).text \o NoteTextLossy(Drop(bytes, 2))
    ELSE NoteTextLossy(Tail(bytes))

\* FileDrop.py:182-185: text = note_data.decode(), '' on UnicodeDecodeError
NoteText(bytes) == IF Utf8Decode(bytes).ok THEN Utf8Decode(bytes).text ELSE <<>>

NoteConn(len, bytes, said, gui) ==
    [id |-> Len(nt.log) + 1, len |-> len, bytes |-> bytes, said |-> said, gui |-> gui]

\* socket.create_connection: the connection waits in the listen backlog
Connect(c) == [nt EXCEPT !.backlog = Append(@, c), !.log = Append(@, c)]

\* UnifiedWidget._send_note, FileDrop.py:991-996: header, length, data, close
SendNote(text) ==
    /\ Len(nt.log) < MaxNotes
    /\ LET data == Utf8Encode(text)
       IN  nt' = Connect(NoteConn(Len(data), data, text, TRUE))
    /\ UNCHANGED <<xferVars, reg, thr, web, cfg>>

\* any other peer: the b'NOTE' header, then it closes inside the length field
\* (len = -1) or announces len and closes after the bytes it sends
RawNote(len, bytes) ==
    /\ Len(nt.log) < MaxNotes
    /\ Len(bytes) <= len \/ (len = -1 /\ bytes = <<>>)
    /\ nt' = Connect(NoteConn(len, bytes, <<>>, FALSE))
    /\ UNCHANGED <<xferVars, reg, thr, web, cfg>>

ListeningAlways == TRUE
\* FileDrop.py:159-160: the loop is back in srv.accept()
Listening == nt.pc = "accept"

\* FileDrop.py:160-175: accept, header == NOTE_HEADER, the length field
AcceptNote ==
    /\ Listening
    /\ nt.backlog # <<>>
    /\ Decode(NOTE_HEADER) = "note"
    /\ LET c == Head(nt.backlog)
       IN  IF c.len < 0
           THEN \* len(length_bytes) < 4: continue
                nt' = [nt EXCEPT !.backlog = Tail(@)]
           ELSE nt' = [nt EXCEPT !.backlog = Tail(@), !.pc = "note", !.conn = c,
                                 !.rest = c.bytes, !.note_data = <<>>,
                                 !.serving = @ \cup {c.id}]
    /\ UNCHANGED <<xferVars, reg, thr, web, cfg>>

\* FileDrop.py:177-181: one recv of the note loop
NoteRecv(n) ==
    /\ nt.pc = "note"
    /\ Len(nt.note_data) < nt.conn.len
    /\ n \in 1..Min(Min(BUFFER_SIZE, nt.conn.len - Len(nt.note_data)), Len(nt.rest))
    /\ nt' = [nt EXCEPT !.note_data = @ \o Take(nt.rest, n), !.rest = Drop(@, n)]
    /\ UNCHANGED <<xferVars, reg, thr, web, cfg>>

\* FileDrop.py:177-188: the loop ends (all bytes, or recv returned b''), the
\* text is decoded and surfaced, the connection is closed
NoteDone ==
    /\ nt.pc = "note"
    /\ Len(nt.note_data) >= nt.conn.len \/ nt.rest = <<>>
    /\ nt' = [nt EXCEPT !.pc = "accept",
                        !.new_note = Append(@, [id |-> nt.conn.id,
                                                text |-> NoteText(nt.note_data)]),
                        !.serving = @ \ {nt.conn.id}]
    /\ UNCHANGED <<xferVars, reg, thr, web, cfg>>

\* the receiver as the notes find it: a table with the entry of a paused
\* transfer and its partial file, or nothing
NoteDirs ==
    { [dir |-> EmptyMap, tbl |-> EmptyMap],
      [dir |-> [q \in {"a.txt.part"} |-> <<11>>],
       tbl |-> Register(EmptyMap, <<"a.txt", 2>>, "a.txt.part", "a.txt")] }

InitNote ==
    /\ \E s \in NoteDirs :
          /\ disk = s.dir
          /\ partials = s.tbl
          /\ nt = [NtInit EXCEPT !.disk0 = s.dir, !.tbl0 = s.tbl]
    /\ rcv = RcvInit
    /\ snd = SndInit
    /\ chan = ChanInit
    /\ cur = CurInit
    /\ pre = Summary(CurInit, EmptyMap)
    /\ nconn = 0
    /\ ncancel = 0
    /\ nrestart = 0
    /\ reg = RegInit
    /\ thr = ThrInit
    /\ web = WebInit
    /\ cfg = CfgInit

NextNote ==
    \/ \E text \in NoteTexts : SendNote(text)
    \/ \E len \in (-1)..MaxNoteLen, bytes \in SeqsUpTo(NoteBytes, MaxNoteLen) :
           RawNote(len, bytes)
    \/ AcceptNote
    \/ \E n \in 1..BUFFER_SIZE : NoteRecv(n)
    \/ NoteDone

SpecNote == InitNote /\ [][NextNote]_vars

(***************************************************************************)
(* Discovery: the peer registry of UnifiedWidget (FileDrop.py 867-909),    *)
(* the sweep timer and the settings dialog, all handlers of the GUI thread. *)
(***************************************************************************)
\* seconds of the clock in one behaviour
MaxTime == 6
\* the values the settings dialog is given (FileDrop.py:1211, 1218)
Intervals == {1, 2}
Ports == {5001, 5002}

\* an address stays regular while its last announcement is no older than the
\* announce interval
StillRegular(r, now, interval) ==
    [ip \in Ips |-> r.regular[ip] /\ (r.heard[ip] >= 0 => now - r.heard[ip] <= interval)]

\* time.time() advances
Tick ==
    /\ reg.now < MaxTime
    /\ reg' = [reg EXCEPT !.now = @ + 1,
                          !.regular = StillRegular(reg, reg.now + 1, cfg.ANNOUNCE_INTERVAL),
                          !.last = "tick", !.deselected = FALSE]
    /\ UNCHANGED <<xferVars, nt, thr, web, cfg>>

\* UnifiedWidget._add_peer, FileDrop.py:867-887 (slot of ListenerThread.new_peer)
AddPeer(ip) ==
    /\ IF ip = reg.current_ip
       THEN reg' = [reg EXCEPT !.last = "add", !.deselected = FALSE]
       ELSE reg' = [reg EXCEPT
                      !.peers = [q \in DOMAIN reg.peers \cup {ip} |->
                                   IF q = ip THEN reg.now ELSE reg.peers[q]],
                      !.list = @ \cup {ip},
                      !.heard[ip] = reg.now,
                      !.regular[ip] = IF reg.heard[ip] < 0 THEN TRUE ELSE @,
                      !.last = "add", !.deselected = FALSE]
    /\ UNCHANGED <<xferVars, nt, thr, web, cfg>>

ThresholdLate(now, interval) == now - 3 * interval
ThresholdEarly(now, interval) == now
\* FileDrop.py:891: threshold = time.time() - 2 * ANNOUNCE_INTERVAL
Threshold(now, interval) == now - 2 * interval
\* FileDrop.py:892: to_remove
ToRemove(peers, threshold) == { ip \in DOMAIN peers : peers[ip] < threshold }
KeepSelection(chosen, to_remove) == chosen
\* FileDrop.py:902-903: the selection is cleared when its peer is removed
Deselect(chosen, to_remove) == IF chosen \in to_remove THEN "" ELSE chosen

\* UnifiedWidget._remove_stale_peers, FileDrop.py:889-904 (slot of _peer_timer)
RemoveStalePeers ==
    /\ LET to_remove == ToRemove(reg.peers, Threshold(reg.now, cfg.ANNOUNCE_INTERVAL))
       IN  reg' = [reg EXCEPT
                     !.peers = [q \in DOMAIN reg.peers \ to_remove |-> reg.peers[q]],
                     !.list = @ \ to_remove,
                     !.chosen = Deselect(@, to_remove),
                     !.last = "sweep",
                     !.deselected = reg.chosen \in to_remove]
    /\ UNCHANGED <<xferVars, nt, thr, web, cfg>>

\* UnifiedWidget._select_peer, FileDrop.py:906-909: double click on a list item
SelectPeer(ip) ==
    /\ ip \in reg.list
    /\ reg' = [reg EXCEPT !.chosen = ip, !.last = "select", !.deselected = FALSE]
    /\ UNCHANGED <<xferVars, nt, thr, web, cfg>>

\* UnifiedWidget._open_settings, FileDrop.py:1040-1051, dialog accepted; the
\* GUI thread is not inside a stop() call
OpenSettings(interval, port) ==
    /\ thr.gui = "idle"
    /\ cfg' = [ANNOUNCE_INTERVAL |-> interval, TCP_PORT |-> port]
    /\ reg' = [reg EXCEPT !.regular = StillRegular(reg, reg.now, interval),
                          !.current_ip = reg.local_ip,
                          !.last = "settings", !.deselected = FALSE]
    /\ UNCHANGED <<xferVars, nt, thr, web>>

InitPeers ==
    /\ Init
    /\ disk = EmptyMap

NextPeers ==
    \/ Tick
    \/ \E ip \in Ips : AddPeer(ip)
    \/ RemoveStalePeers
    \/ \E ip \in Ips : SelectPeer(ip)
    \/ \E interval \in Intervals, port \in Ports : OpenSettings(interval, port)

SpecPeers == InitPeers /\ [][NextPeers]_vars

\* the host is given another address (DHCP lease, another network): from now
\* on get_local_ip(), FileDrop.py:64-82, returns it
NetChange(ip) ==
    /\ ip # reg.local_ip
    /\ reg' = [reg EXCEPT !.local_ip = ip, !.last = "net", !.deselected = FALSE]
    /\ UNCHANGED <<xferVars, nt, thr, web, cfg>>

\* UnifiedWidget._check_ip_change, FileDrop.py:1053-1062 (slot of _ip_timer,
\* every 2 s): _current_ip follows get_local_ip(); the announcer is restarted,
\* the registry is left as it is
CheckIpChange ==
    /\ reg' = [reg EXCEPT !.current_ip = reg.local_ip,
                          !.last = "ipcheck", !.deselected = FALSE]
    /\ UNCHANGED <<xferVars, nt, thr, web, cfg>>

\* AnnouncerThread.run, FileDrop.py:102-109, heard by this host's own
\* ListenerThread (120-128): the datagram carries get_local_ip() as read by
\* the announcer when it sends
OwnAnnouncement == AddPeer(reg.local_ip)

\* the other hosts announce themselves from addresses this host does not hold
PeerAnnouncement(ip) ==
    /\ ip \notin {reg.local_ip, reg.current_ip}
    /\ AddPeer(ip)

NextIp ==
    \/ Tick
    \/ OwnAnnouncement
    \/ \E ip \in Ips : PeerAnnouncement(ip)
    \/ RemoveStalePeers
    \/ \E ip \in Ips : NetChange(ip)
    \/ CheckIpChange
    \/ OpenSettings(ANNOUNCE_INTERVAL, TCP_PORT)

SpecIp == InitPeers /\ [][NextIp]_vars

(***************************************************************************)
(* Threads: ReceiverThread.run / stop (FileDrop.py 153-163, 306-312) and   *)
(* ListenerThread.run / stop (125-138); stop() runs in the GUI thread.     *)
(***************************************************************************)
\* stop() calls in one behaviour
MaxStops == 2
\* datagrams that arrive in one behaviour
MaxDgrams == 2

\* UnifiedWidget._toggle, FileDrop.py:1017-1026, and run() 154-160: a new
\* ReceiverThread binds TCP_PORT and blocks in accept()
StartReceiver ==
    /\ thr.gui = "idle"
    /\ thr.rpc \in {"none", "exited"}
    /\ thr.nstop < MaxStops
    /\ thr' = [thr EXCEPT !.rpc = "accept", !.running = TRUE,
                          !.port = cfg.TCP_PORT, !.wake = FALSE]
    /\ UNCHANGED <<xferVars, nt, reg, web, cfg>>

\* ReceiverThread.stop, FileDrop.py:307: self._running = False
StopBegin ==
    /\ thr.gui = "idle"
    /\ thr.rpc # "none"
    /\ thr.nstop < MaxStops
    /\ thr' = [thr EXCEPT !.running = FALSE, !.gui = "stop_connect", !.nstop = @ + 1]
    /\ UNCHANGED <<xferVars, nt, reg, web, cfg>>

\* FileDrop.py:308-311: connect to ("127.0.0.1", TCP_PORT) and close; a
\* refused connection is swallowed
StopWake ==
    /\ thr.gui = "stop_connect"
    /\ thr' = [thr EXCEPT !.gui = "stop_wait",
                          !.wake = thr.rpc = "accept" /\ thr.port = cfg.TCP_PORT]
    /\ UNCHANGED <<xferVars, nt, reg, web, cfg>>

\* ReceiverThread.run, FileDrop.py:159-169: accept() returns stop()'s
\* connection; the loop ends when _running is False
AcceptWake ==
    /\ thr.rpc = "accept"
    /\ thr.wake
    /\ thr' = [thr EXCEPT !.wake = FALSE,
                          !.rpc = IF thr.running THEN "accept" ELSE "exited"]
    /\ UNCHANGED <<xferVars, nt, reg, web, cfg>>

\* FileDrop.py:312: self.wait() returns once run() has returned
StopReturn ==
    /\ thr.gui = "stop_wait"
    /\ thr.rpc = "exited"
    /\ thr' = [thr EXCEPT !.gui = "idle"]
    /\ UNCHANGED <<xferVars, nt, reg, web, cfg>>

\* an announcement reaches the listener's socket
Datagram ==
    /\ thr.ndgram < MaxDgrams
    /\ thr' = [thr EXCEPT !.dgrams = @ + 1, !.ndgram = @ + 1]
    /\ UNCHANGED <<xferVars, nt, reg, web, cfg>>

\* ListenerThread.run, FileDrop.py:128-134: recvfrom returns, new_peer is
\* emitted, the loop tests self.running
ListenerRecv ==
    /\ thr.lpc = "recvfrom"
    /\ thr.dgrams > 0
    /\ thr' = [thr EXCEPT !.dgrams = @ - 1,
                          !.lpc = IF thr.lrunning THEN "recvfrom" ELSE "exited"]
    /\ UNCHANGED <<xferVars, nt, reg, web, cfg>>

\* ListenerThread.stop, FileDrop.py:137: self.running = False
ListenerStopBegin ==
    /\ thr.gui = "idle"
    /\ thr.nstop < MaxStops
    /\ thr' = [thr EXCEPT !.lrunning = FALSE, !.gui = "lstop_wait", !.nstop = @ + 1]
    /\ UNCHANGED <<xferVars, nt, reg, web, cfg>>

\* FileDrop.py:138: self.wait() returns once run() has returned
ListenerStopReturn ==
    /\ thr.gui = "lstop_wait"
    /\ thr.lpc = "exited"
    /\ thr' = [thr EXCEPT !.gui = "idle"]
    /\ UNCHANGED <<xferVars, nt, reg, web, cfg>>

NextStop ==
    \/ StartReceiver
    \/ StopBegin
    \/ StopWake
    \/ AcceptWake
    \/ StopReturn
    \/ Datagram
    \/ ListenerRecv
    \/ ListenerStopBegin
    \/ ListenerStopReturn
    \/ \E interval \in Intervals, port \in Ports : OpenSettings(interval, port)

SpecStop == InitPeers /\ [][NextStop]_vars

(***************************************************************************)
(* The claims.  cur describes the connection the receiver is serving or    *)
(* served last, pre the one before it, cur.disk0 the directory when cur    *)
(* was accepted.                                                           *)
(***************************************************************************)
IsTransfer(c) == c.kind \in {"fresh", "resume"}
\* the sender of the connection cur describes
SenderOfCur == snd.id = cur.id

\* C1: a fresh transfer that is not interrupted leaves a completed file that is
\* byte-identical to the source, for every content including the empty one;
\* afterwards its .part file is gone and the table has no entry for its key.
\* A fresh transfer only ends paused when its sender failed.
C1_FreshRoundTrip ==
    /\ (cur.kind = "fresh" /\ cur.status = "saved") =>
          /\ Exists(disk, cur.final)
          /\ disk[cur.final] = cur.src
          /\ ~Exists(disk, cur.part)
          /\ cur.key \notin DOMAIN partials
    /\ (cur.kind = "fresh" /\ cur.status = "paused" /\ SenderOfCur) =>
          snd.status = "failed"
    /\ (cur.kind = "fresh" /\ SenderOfCur /\ snd.status = "sent" /\ chan.rclosed) =>
          cur.status \in {"saved", "dead"}

C1_Witness ==
    /\ cur.kind = "fresh"
    /\ cur.status = "saved"
    /\ Len(cur.src) > 1
    /\ snd.status = "sent"

C1_WitnessEmpty ==
    /\ cur.kind = "fresh"
    /\ cur.status = "saved"
    /\ cur.src = <<>>

\* C2: a transfer was interrupted after exactly k bytes of the file were
\* received, 0 < k < filesize, and the next connection is a Resume of the same
\* file under the same (filename, filesize): the receiver replies offset k, the
\* sender reads offset k, and when the resumed transfer is saved the destination
\* file (the final name allocated at first) is byte-identical to the source.
\* A resumed send that finished is saved unless open() failed on the receiver.
C2_Interrupted ==
    /\ cur.kind = "resume"
    /\ IsTransfer(pre)
    /\ pre.status = "paused"
    /\ ~pre.restarted
    /\ pre.key = cur.key
    /\ pre.src = cur.src
    /\ Exists(cur.disk0, pre.part)
    /\ Len(cur.disk0[pre.part]) > 0
    /\ Len(cur.disk0[pre.part]) < cur.size
    /\ cur.disk0[pre.part] = Take(cur.src, Len(cur.disk0[pre.part]))

C2_ResumeCorrect ==
    C2_Interrupted =>
       LET k == Len(cur.disk0[pre.part])
       IN  /\ cur.status \in {"recv", "saved", "paused", "dead"}
           /\ cur.offset = k
           /\ cur.final = pre.final
           /\ (SenderOfCur /\ snd.offset >= 0) => snd.offset = k
           /\ cur.status = "saved" => /\ Exists(disk, cur.final)
                                      /\ disk[cur.final] = cur.src
           /\ (SenderOfCur /\ snd.status = "resumed" /\ chan.rclosed) =>
                 cur.status \in {"saved", "dead"}

C2_Witness ==
    /\ C2_Interrupted
    /\ cur.status = "saved"
    /\ snd.status = "resumed"
    /\ snd.offset = 1

\* the directory held no file with the content of cur's source when cur was
\* accepted
NoCopyOfSource == \A p \in DOMAIN cur.disk0 : cur.disk0[p] # cur.src

\* C3: a Resume for a (filename, filesize) whose transfer (of a non-empty file)
\* the receiver has just saved is answered with offset = filesize; the receiver
\* changes no file and the sender sends no payload byte.
C3_JustSaved ==
    /\ cur.kind = "resume"
    /\ cur.status # "dead"
    /\ cur.size > 0
    /\ IsTransfer(pre)
    /\ pre.status = "saved"
    /\ pre.key = cur.key

C3_ResumeOfCompleted ==
    C3_JustSaved =>
       /\ cur.status = "complete"
       /\ cur.offset = cur.size
       /\ disk = cur.disk0
       /\ SenderOfCur => snd.payload = 0

\* C4 as claimed: of two consecutive fresh transfers with the same filename and
\* different content, both saved, the second is named with " (1)" before the
\* extension; the two final files are distinct and each holds its own source.
C4_TwoFresh ==
    /\ cur.kind = "fresh"
    /\ cur.status = "saved"
    /\ pre.kind = "fresh"
    /\ pre.status = "saved"
    /\ pre.key[1] = cur.name
    /\ pre.src # cur.src

C4_BothIntact ==
    /\ cur.final # pre.final
    /\ Exists(disk, pre.final)
    /\ disk[pre.final] = pre.src
    /\ Exists(disk, cur.final)
    /\ disk[cur.final] = cur.src

C4_SecondIsOne ==
    C4_TwoFresh =>
       /\ C4_BothIntact
       /\ \E fn \in FileNames : Name(fn) = cur.name /\ cur.final = Numbered(fn, 1)

\* the most numbered names a directory of the model can hold
MaxNumber == MaxConns + 2

\* C4 amended: the second is named with " (n)" before the extension, n the
\* smallest positive number whose name was free when it was accepted (n = 1
\* when no " (1)" file was there); the two final files are distinct and each
\* holds its own source.
C4_SecondIsNextFree ==
    C4_TwoFresh =>
       /\ C4_BothIntact
       /\ \E fn \in FileNames, n \in 1..MaxNumber :
             /\ Name(fn) = cur.name
             /\ cur.final = Numbered(fn, n)
             /\ ~Exists(cur.disk0, cur.final)
             /\ Exists(cur.disk0, Name(fn))
             /\ \A m \in 1..(n - 1) : Exists(cur.disk0, Numbered(fn, m))

C4_Witness ==
    /\ C4_TwoFresh
    /\ pre.final = "a.txt"
    /\ cur.final = "a (1).txt"
    /\ Len(pre.src) = Len(cur.src)

\* C5: Cancel for a filename with an active partial transfer removes the
\* partial file and the table entry, and the Resume that follows for the same
\* (filename, filesize) is answered with offset 0 (here: of a file of which
\* the directory holds no copy).
C5_CancelThenResume ==
    /\ (cur.kind = "cancel" /\ ~cur.restarted) =>
          \A r \in cur.removed : r[1] \notin DOMAIN partials /\ ~Exists(disk, r[2])
    /\ (cur.kind = "resume" /\ pre.kind = "cancel" /\ NoCopyOfSource
          /\ \E r \in pre.removed : r[1] = cur.key) =>
          cur.offset = 0

\* C6: two transfers with the same filename and different filesize that are
\* incomplete at the same time have different partial files, and accepting a
\* fresh transfer or a Resume of the one leaves the bytes received for the
\* other as they were (stated for connections served without a disk error).
C6_NoCollision ==
    /\ cur.status # "dead" =>
          \A k1, k2 \in DOMAIN partials :
             (k1 # k2 /\ k1[1] = k2[1]
                /\ Exists(disk, partials[k1].part) /\ Exists(disk, partials[k2].part))
             => partials[k1].part # partials[k2].part
    /\ (IsTransfer(cur) /\ cur.status # "dead" /\ ~cur.restarted) =>
          \A k1 \in DOMAIN partials :
             (k1 # cur.key /\ k1[1] = cur.name /\ Exists(cur.disk0, partials[k1].part))
             => /\ Exists(disk, partials[k1].part)
                /\ disk[partials[k1].part] = cur.disk0[partials[k1].part]

\* C7: after a restart, a Resume for the interrupted (filename, filesize) of the
\* same file, of which the directory holds no complete copy, replies with the number of bytes stored in that transfer's partial
\* file, and the file it saves is byte-identical to the source.
C7_AfterRestart ==
    /\ cur.kind = "resume"
    /\ cur.status # "dead"
    /\ IsTransfer(pre)
    /\ pre.status = "paused"
    /\ pre.restarted
    /\ pre.key = cur.key
    /\ pre.src = cur.src
    /\ NoCopyOfSource
    /\ Exists(cur.disk0, pre.part)
    /\ cur.disk0[pre.part] = Take(cur.src, Len(cur.disk0[pre.part]))

C7_ResumeAfterRestart ==
    C7_AfterRestart =>
       /\ cur.status # "complete"
       /\ cur.offset = Len(cur.disk0[pre.part])
       /\ cur.part = pre.part
       /\ cur.status = "saved" => /\ Exists(disk, cur.final)
                                  /\ disk[cur.final] = cur.src

\* C8: a Resume that finds neither a partial nor a complete file allocates the
\* final name the fresh-transfer path would allocate in the same directory
\* (stated for connections served without a disk error).
C8_SameAllocation ==
    (cur.kind = "resume" /\ cur.branch = "new" /\ cur.status # "dead")
       => cur.final = cur.freshFinal

\* C9: a failure while one connection is served leaves the accept loop running.
C9_AcceptLoopSurvives == rcv.pc # "dead"

\* C10: when the peer closes before filesize bytes arrived, the partial file
\* holds exactly the bytes stored before this connection (none for a fresh
\* transfer) followed by the bytes received on it, the table keeps the entry of
\* the key, and no other file was created, renamed, changed or deleted.
C10_Paused ==
    /\ IsTransfer(cur)
    /\ cur.status = "paused"
    /\ ~cur.restarted

C10_PartialKept ==
    C10_Paused =>
       LET before == IF cur.kind = "resume" /\ Exists(cur.disk0, cur.part)
                     THEN cur.disk0[cur.part] ELSE <<>>
       IN  /\ Exists(disk, cur.part)
           /\ disk[cur.part] = before \o cur.got
           /\ cur.key \in DOMAIN partials
           /\ partials[cur.key].part = cur.part
           /\ ~Exists(disk, cur.final)
           /\ \A p \in DOMAIN cur.disk0 : Exists(disk, p)
           /\ \A p \in DOMAIN disk \ {cur.part} :
                 Exists(cur.disk0, p) /\ disk[p] = cur.disk0[p]

C10_Witness ==
    /\ C10_Paused
    /\ cur.kind = "resume"
    /\ Len(cur.got) > 0
    /\ snd.status = "failed"

\* C11: every transfer attempt ends with a final status: a sender run that is
\* over has emitted sent, resumed, already complete or failed, and a file
\* connection the receiver is done with has emitted saved or paused (or, for a
\* Resume, already complete).
C11_FinalStatus ==
    /\ snd.pc = "done" => snd.status \in {"sent", "resumed", "already", "failed"}
    /\ (IsTransfer(cur) /\ chan.id = cur.id /\ chan.rclosed) =>
          cur.status \in {"saved", "paused", "complete"}

\* C12: after Cancel for a filename was processed the table has no entry of
\* that filename, the partial file of the transfer of that filename that was
\* paused just before is gone, also when a restart emptied the table in
\* between, and no reply was sent on the Cancel connection.
C12_CancelRemovesAll ==
    (cur.kind = "cancel" /\ cur.status = "discarded") =>
       /\ \A k \in DOMAIN partials : k[1] # cur.name
       /\ chan.id = cur.id => chan.reply < 0
       /\ (IsTransfer(pre) /\ pre.status = "paused" /\ pre.key[1] = cur.name) =>
             ~Exists(disk, pre.part)

NoteFinished(i) ==
    /\ i \notin nt.serving
    /\ \A k \in 1..Len(nt.backlog) : nt.backlog[k].id # i
NotesOf(i) == { k \in 1..Len(nt.new_note) : nt.new_note[k].id = i }

\* C14: a Note connection on which all announced bytes arrived surfaces exactly
\* one note: the text whose UTF-8 encoding the bytes are (the text typed, for a
\* note of the application), or the empty text when the bytes are no UTF-8; a
\* connection still served or waiting has surfaced none; the directory and the
\* partial table stay as they were.
C14_OneNote ==
    /\ \A i \in 1..Len(nt.log) :
          LET c == nt.log[i]
              decoded == { t \in SeqsUpTo(NoteChars, MaxNoteLen) : Utf8Encode(t) = c.bytes }
          IN  /\ ~NoteFinished(i) => NotesOf(i) = {}
              /\ (NoteFinished(i) /\ c.len >= 0 /\ Len(c.bytes) = c.len) =>
                    /\ Cardinality(NotesOf(i)) = 1
                    /\ \A k \in NotesOf(i) :
                          /\ c.gui => nt.new_note[k].text = c.said
                          /\ \A t \in decoded : nt.new_note[k].text = t
                          /\ decoded = {} => nt.new_note[k].text = <<>>
    /\ disk = nt.disk0
    /\ partials = nt.tbl0

C14_Witness ==
    /\ partials # EmptyMap
    /\ \E i, j \in 1..Len(nt.log) :
          /\ NoteFinished(i) /\ nt.log[i].gui /\ nt.log[i].said = <<65, 233>>
          /\ NoteFinished(j) /\ nt.log[j].bytes = <<65, 169>> /\ nt.log[j].len = 2

\* C15: after a sweep the registry holds no peer whose last announcement is
\* older than 2 x ANNOUNCE_INTERVAL.
C15_StaleAbsent ==
    reg.last = "sweep" =>
       \A ip \in Ips :
          (reg.heard[ip] >= 0 /\ reg.now - reg.heard[ip] > 2 * cfg.ANNOUNCE_INTERVAL)
          => ip \notin DOMAIN reg.peers

C15_Witness ==
    /\ reg.last = "sweep"
    /\ reg.heard["10.0.0.2"] >= 0
    /\ reg.now - reg.heard["10.0.0.2"] > 2 * cfg.ANNOUNCE_INTERVAL
    /\ "10.0.0.3" \in DOMAIN reg.peers

\* C16: a peer (another host) that has been announced at least once per
\* ANNOUNCE_INTERVAL since it was first heard is in the registry, whatever
\* sweeps ran in between.
C16_RegularStays ==
    \A ip \in Ips \ {CurrentIp} :
       (reg.heard[ip] >= 0 /\ reg.regular[ip]) => ip \in DOMAIN reg.peers

C16_Witness ==
    /\ reg.last = "sweep"
    /\ reg.now >= 5
    /\ reg.heard["10.0.0.2"] = 0
    /\ "10.0.0.2" \notin DOMAIN reg.peers
    /\ reg.heard["10.0.0.3"] = reg.now - cfg.ANNOUNCE_INTERVAL
    /\ reg.regular["10.0.0.3"]

\* C17: the selected destination is empty or an address of the registry.
C17_SelectionValid == reg.chosen = "" \/ reg.chosen \in DOMAIN reg.peers

C17_Witness ==
    /\ reg.last = "sweep"
    /\ reg.deselected
    /\ reg.chosen = ""
    /\ reg.peers # EmptyMap

(***************************************************************************)
(* Web variant: FileDrop_Web/server.py, the client registry (ws_endpoint)  *)
(* and upload_file.                                                        *)
(***************************************************************************)
\* upload requests in one behaviour
MaxUploads == 1
\* size of an uploaded file
MaxUploadSize == 1

Sessions == {"s1", "s2"}
ClientIds == {"c1", "c2"}
\* an absent client_id / code / header
Absent == ""
\* --access-code, server.py:549
Codes == {"", "pw"}
\* what a request can supply as its code
SuppliedCodes == {"", "pw", "no"}
\* target_ids: None (<<>>) or the pieces of target_ids.split(",")
TargetIds == {<<>>, <<"">>, <<"c1">>, <<"c2">>, <<"c1", "c2">>, <<"", "c2">>}
UploadNames == {[dir |-> "", stem |-> "a", ext |-> ".txt"],
                [dir |-> "../", stem |-> "a", ext |-> ".txt"]}

\* server.py:464: data.get("client_id") or str(uuid.uuid4())
ClientIdOf(session, client_id) ==
    IF client_id # Absent THEN client_id ELSE "uuid-" \o session

\* server.py:96-108
RECURSIVE unique_loop(_, _, _)
unique_loop(files, fn, counter) ==
    IF Numbered(fn, counter) \in DOMAIN files THEN unique_loop(files, fn, counter + 1)
    ELSE Numbered(fn, counter)

\* an allocation that does not look at the directory
unique_pathPlain(files, fn) == Name(fn)
\* server.py:96-108: Path(filename).name drops the directory part
unique_path(files, fn) ==
    IF Name(fn) \notin DOMAIN files THEN Name(fn) ELSE unique_loop(files, fn, 1)

\* server.py:111-119: does require_code let the request through?
\* supplied = code or header_code or query_code
Supplied(code, header) == IF code # Absent THEN code ELSE header
require_code(access_code, supplied) == access_code = "" \/ supplied = access_code

\* server.py:122-131: broadcast sends to every session; a session whose send
\* fails (dead) is dropped
broadcast(clients, dead) == [x \in DOMAIN clients \ dead |-> clients[x]]

\* the receivers filter without the uploader's exclusion
ReceiversAll(clients, client_id) ==
    { clients[x].client_id : x \in { y \in DOMAIN clients : clients[y].can_receive } }
\* server.py:391-395
Receivers(clients, client_id) ==
    { clients[x].client_id :
        x \in { y \in DOMAIN clients :
                  clients[y].can_receive /\ clients[y].client_id # client_id } }

\* [t for t in seq if pred]
RECURSIVE Filter(_, _)
Filter(seq, keep) ==
    IF seq = <<>> THEN <<>>
    ELSE (IF Head(seq) \in keep THEN <<Head(seq)>> ELSE <<>>) \o Filter(Tail(seq), keep)

Elems(seq) == { seq[i] : i \in 1..Len(seq) }

\* a resolution that stores the valid targets without the uploader
ResolveTargetsNoSender(clients, client_id, target_ids) ==
    LET valid_targets == Filter(Filter(target_ids, ClientIds), Receivers(clients, client_id))
        given == target_ids # <<>> /\ target_ids # <<"">>
    IN  IF given
        THEN [ok |-> valid_targets # <<>>, all |-> FALSE, targets |-> valid_targets]
        ELSE [ok |-> Receivers(clients, client_id) # {}, all |-> TRUE, targets |-> <<>>]
\* server.py:396-408: the resolved targets, or the rejection
\*   if target_ids: a non-empty string; "" splits to [""]
ResolveTargets(clients, client_id, target_ids) ==
    LET receivers == Receivers(clients, client_id)
        given == target_ids # <<>> /\ target_ids # <<"">>
        requested == Filter(target_ids, ClientIds)
        valid_targets == Filter(requested, receivers)
    IN  IF given
        THEN IF valid_targets = <<>> THEN [ok |-> FALSE, targets |-> <<>>, all |-> FALSE]
             ELSE [ok |-> TRUE, all |-> FALSE,
                   targets |-> IF client_id # Absent /\ client_id \notin Elems(valid_targets)
                               THEN Append(valid_targets, client_id)
                               ELSE valid_targets]
        ELSE IF receivers = {} THEN [ok |-> FALSE, targets |-> <<>>, all |-> FALSE]
             ELSE [ok |-> TRUE, all |-> TRUE, targets |-> <<>>]

\* server.py:158-166: the sessions a notification to targets goes to
TargetSessions(clients, targets) ==
    { x \in DOMAIN clients : clients[x].client_id \in Elems(targets) }

\* get_lan_ip(), server.py:55-82: the host's own LAN address
LanIp == "192.168.1.5"
\* the transport addresses a channel or a request can come from: loopback,
\* the host's LAN address, another machine
Hosts == {"127.0.0.1", "192.168.1.5", "192.168.1.7"}
RemoteHosts == {"192.168.1.7"}
\* the first message of a channel: a hello, another JSON message, not JSON
FirstMessages == {"hello", "note", "garbage"}

\* an is_admin that believes the hello's client id
HelloIsAdminTrusting(host, data) ==
    host \in {"127.0.0.1", "::1", LanIp} \/ data.client_id = "c1"
\* ws_endpoint, server.py:461-463: is_admin = remote_host in {"127.0.0.1", "::1", lan_ip}
HelloIsAdmin(host, data) == host \in {"127.0.0.1", "::1", LanIp}

\* broadcast_clients, server.py:198-209: the items of the roster
RosterItems(clients) ==
    [x \in DOMAIN clients |-> [client_id |-> clients[x].client_id,
                               can_receive |-> clients[x].can_receive,
                               is_admin |-> clients[x].is_admin]]

\* broadcast_clients, server.py:198-209, on the state w: the roster goes to
\* every session; the sessions whose send fails (dead) are dropped
broadcast_clients(w, dead) ==
    [w EXCEPT !.roster = [items |-> RosterItems(w.clients), to |-> DOMAIN w.clients \ dead],
              !.clients = broadcast(w.clients, dead)]

\* a hello that lets any code through
CodeRefusedNever(access_code, code) == FALSE
\* ws_endpoint, server.py:454: the hello's code is refused
CodeRefused(access_code, code) == access_code # "" /\ code # access_code

\* ws_endpoint, server.py:444-488 and 523-530: the first message of a channel
\*   not JSON: json.loads raises, the handler ends (449-450, 525-526)
\*   not a hello: close 1002 (451-453)
\*   wrong access code: an error message, close 1008 (454-457)
\*   else the session is registered (458-471), welcomed (472-487) and the
\*   roster broadcast (488); if the welcome cannot be sent the session is
\*   dropped again and the roster broadcast (525-530)
\* dead: the sessions whose channel fails when the roster is sent to them
WsHello(session, first, client_id, can_receive, code, host, dead) ==
    LET data == [client_id |-> client_id, can_receive |-> can_receive, code |-> code]
        ev1 == [NoEvent EXCEPT !.op = "hello", !.first = first, !.code = code]
        info == [client_id |-> ClientIdOf(session, client_id),
                 can_receive |-> can_receive,
                 is_admin |-> HelloIsAdmin(host, data),
                 host |-> host]
        joined == [web EXCEPT !.clients = Put(web.clients, session, info)]
    IN  /\ session \notin DOMAIN web.clients
        /\ dead \subseteq DOMAIN web.clients \cup {session}
        /\ IF first = "garbage"
           THEN web' = [web EXCEPT !.ev = ev1]
           ELSE IF first # "hello"
           THEN web' = [web EXCEPT !.ev = [ev1 EXCEPT !.close = 1002]]
           ELSE IF CodeRefused(web.access_code, code)
           THEN web' = [web EXCEPT !.ev = [ev1 EXCEPT !.close = 1008]]
           ELSE \E welcomed \in BOOLEAN :
                  /\ welcomed \/ session \notin dead
                  /\ web' = IF welcomed
                            THEN [broadcast_clients(joined, dead) EXCEPT
                                    !.ev = [ev1 EXCEPT !.welcome = TRUE, !.roster = TRUE,
                                                       !.open = session \notin dead]]
                            ELSE [broadcast_clients(web, dead) EXCEPT
                                    !.ev = [ev1 EXCEPT !.roster = TRUE]]
        /\ UNCHANGED <<xferVars, nt, reg, thr, cfg>>

\* ws_endpoint, server.py:517-522: a "mode" message
WsMode(session, can_receive, dead) ==
    /\ session \in DOMAIN web.clients
    /\ dead \subseteq DOMAIN web.clients \ {session}
    /\ web' = [broadcast_clients(
                 [web EXCEPT !.clients[session].can_receive = can_receive], dead)
               EXCEPT !.ev = [NoEvent EXCEPT !.op = "mode", !.roster = TRUE, !.open = TRUE]]
    /\ UNCHANGED <<xferVars, nt, reg, thr, cfg>>

\* ws_endpoint, server.py:523-530: the channel ends, the session is dropped
WsDisconnect(session, dead) ==
    /\ session \in DOMAIN web.clients
    /\ dead \subseteq DOMAIN web.clients \ {session}
    /\ web' = [broadcast_clients(
                 [web EXCEPT !.clients = broadcast(web.clients, {session})], dead)
               EXCEPT !.ev = [NoEvent EXCEPT !.op = "disconnect", !.roster = TRUE]]
    /\ UNCHANGED <<xferVars, nt, reg, thr, cfg>>

\* ws_endpoint, server.py:509-513: the kick goes on unless the code is refused
KickAllowed(w, session, code) == ~CodeRefused(w.access_code, code)

\* ws_endpoint, server.py:509-515 and kick_session, 186-195: a "kick" message;
\* the target's channel is closed (4000), the target dropped, the roster
\* broadcast
WsKick(session, target, code, dead) ==
    /\ session \in DOMAIN web.clients
    /\ dead \subseteq DOMAIN web.clients \ {target}
    /\ IF KickAllowed(web, session, code) /\ target \in DOMAIN web.clients
       THEN web' = [broadcast_clients(
                      [web EXCEPT !.clients = broadcast(web.clients, {target})], dead)
                    EXCEPT !.ev = [NoEvent EXCEPT !.op = "kick", !.by = session,
                                                  !.close = 4000, !.target = target,
                                                  !.roster = TRUE,
                                                  !.open = session # target]]
       ELSE web' = [web EXCEPT !.ev = [NoEvent EXCEPT !.op = "kick", !.by = session,
                                                      !.open = TRUE]]
    /\ UNCHANGED <<xferVars, nt, reg, thr, cfg>>

\* a relay that sends every note to all the sessions
NoteRecipientsAll(clients, session, to) == DOMAIN clients
\* ws_endpoint, server.py:502-506: the sessions a note is sent to: the listed
\* sessions that are registered (notify_session, 148-151), or every session
\* but the sender's (broadcast_except, 134-138)
NoteRecipients(clients, session, to) ==
    IF to # {} THEN to \cap DOMAIN clients ELSE DOMAIN clients \ {session}

\* ws_endpoint, server.py:492-506: a "note" message is relayed to the sessions
\* listed in "to" (notify_session, 148-155) or to every other session
\* (broadcast_except, 134-145); a session whose send fails is dropped
WsNote(session, to, dead) ==
    /\ session \in DOMAIN web.clients
    /\ dead \subseteq NoteRecipients(web.clients, session, to)
    /\ web' = [web EXCEPT !.clients = broadcast(web.clients, dead),
                         !.ev = [NoEvent EXCEPT
                                   !.op = "note", !.by = session, !.list = to,
                                   !.sent = NoteRecipients(web.clients, session, to) \ dead,
                                   !.open = TRUE]]
    /\ UNCHANGED <<xferVars, nt, reg, thr, cfg>>

\* upload_file, server.py:380-441
\*   401  require_code refuses (389)
\*   409  no receiver (396-408)
\*   200  the file is written, indexed and pushed (410-441)
\*   500  a push to a target fails: notify_session drops the session while
\*        notify_target iterates the registry (148-161)
\* dead: the sessions whose channel fails when the push is sent to them
UploadFile(fn, size, client_id, target_ids, code, header, dead) ==
    LET supplied == Supplied(code, header)
        req == [op |-> "upload", client_id |-> client_id, supplied |-> supplied,
                target_ids |-> target_ids,
                receiving0 |-> { web.clients[x].client_id :
                                   x \in { y \in DOMAIN web.clients :
                                             web.clients[y].can_receive } },
                files0 |-> web.files,
                index0 |-> web.file_index, status |-> 0, name |-> "",
                pushed |-> {}, failed |-> {}]
        res == ResolveTargets(web.clients, client_id, target_ids)
        dest == unique_path(web.files, fn)
        files1 == Put(web.files, dest, size)
        index1 == Put(web.file_index, dest,
                      [targets |-> res.targets, all |-> res.all, size |-> size])
        to == IF res.all THEN DOMAIN web.clients
              ELSE TargetSessions(web.clients, res.targets)
    IN  /\ web.nup < MaxUploads
        /\ IF ~require_code(web.access_code, supplied)
           THEN web' = [web EXCEPT !.nup = @ + 1, !.last = [req EXCEPT !.status = 401]]
           ELSE IF ~res.ok
           THEN web' = [web EXCEPT !.nup = @ + 1, !.last = [req EXCEPT !.status = 409]]
           ELSE /\ dead \subseteq to
                /\ IF res.all \/ dead = {}
                  THEN web' = [web EXCEPT !.nup = @ + 1, !.files = files1,
                                         !.file_index = index1,
                                         !.clients = broadcast(web.clients, dead),
                                         !.last = [req EXCEPT !.status = 200,
                                                              !.name = dest,
                                                              !.pushed = to \ dead,
                                                              !.failed = dead]]
                  ELSE \E first \in dead, before \in SUBSET (to \ dead) :
                         web' = [web EXCEPT !.nup = @ + 1, !.files = files1,
                                           !.file_index = index1,
                                           !.clients = broadcast(web.clients, {first}),
                                           !.last = [req EXCEPT !.status = 500,
                                                                !.name = dest,
                                                                !.pushed = before,
                                                                !.failed = {first}]]
        /\ UNCHANGED <<xferVars, nt, reg, thr, cfg>>

\* a file with a name that starts with a dot
DotFile == [dir |-> "", stem |-> ".env", ext |-> ""]
\* entry.name.startswith("."), server.py:327
StartsWithDot(name) == name \in {Name(DotFile)} \cup { Numbered(DotFile, k) : k \in 1..2 }

\* a listing that shows every file to everyone
HiddenNever(index, name, client_id) == FALSE
\* list_files, server.py:331-334 (download_file 351-354, delete_file 368-371):
\* the file has a non-empty target list and client_id is not in it
Hidden(index, name, client_id) ==
    /\ name \in DOMAIN index
    /\ index[name].targets # <<>>
    /\ client_id \notin Elems(index[name].targets)

\* list_files, server.py:320-343; client_id is the x-filedrop-client header
\* or the client_id query parameter, supplied the code of the header or query
ListFiles(client_id, supplied) ==
    /\ web' = [web EXCEPT !.resp =
                 IF ~require_code(web.access_code, supplied)
                 THEN [NoResponse EXCEPT !.op = "list", !.status = 401]
                 ELSE [op |-> "list", status |-> 200,
                       names |-> { n \in DOMAIN web.files :
                                     /\ ~StartsWithDot(n)
                                     /\ ~Hidden(web.file_index, n, client_id) }]]
    /\ UNCHANGED <<xferVars, nt, reg, thr, cfg>>

\* server.py:169-175
is_admin_client(clients, client_id) ==
    /\ client_id # Absent
    /\ \E x \in DOMAIN clients : clients[x].is_admin /\ clients[x].client_id = client_id

\* server.py:178-183
is_admin_request(clients, host, client_id) ==
    is_admin_client(clients, client_id) \/ host \in {"127.0.0.1", "::1", LanIp}

\* delete_file, server.py:361-377
\*   401  require_code refuses (363)
\*   403  not an admin request (365-366), or the file is hidden from client_id (368-371)
\*   404  no such file (372-374)
\*   200  the file is unlinked and its record dropped (375-377)
DeleteFile(name, host, client_id, supplied) ==
    LET answer(status) == [NoResponse EXCEPT !.op = "delete", !.status = status]
    IN  /\ IF ~require_code(web.access_code, supplied)
           THEN web' = [web EXCEPT !.resp = answer(401)]
           ELSE IF ~is_admin_request(web.clients, host, client_id)
           THEN web' = [web EXCEPT !.resp = answer(403)]
           ELSE IF Hidden(web.file_index, name, client_id)
           THEN web' = [web EXCEPT !.resp = answer(403)]
           ELSE IF name \notin DOMAIN web.files
           THEN web' = [web EXCEPT !.resp = answer(404)]
           ELSE web' = [web EXCEPT !.files = Remove(web.files, name),
                                   !.file_index = Pop(web.file_index, name),
                                   !.resp = answer(200)]
        /\ UNCHANGED <<xferVars, nt, reg, thr, cfg>>

\* what the storage directory can hold when the server starts
StorageDirs == {EmptyMap, [p \in {"a.txt"} |-> 1], [p \in {"a.txt", "a (1).txt"} |-> 1]}

\* main(), server.py:544-550: the server starts with the configured access
\* code and storage directory; the index is empty
InitWeb ==
    /\ disk = EmptyMap
    /\ partials = EmptyMap
    /\ rcv = RcvInit
    /\ snd = SndInit
    /\ chan = ChanInit
    /\ cur = CurInit
    /\ pre = Summary(CurInit, EmptyMap)
    /\ nconn = 0
    /\ ncancel = 0
    /\ nrestart = 0
    /\ nt = NtInit
    /\ reg = RegInit
    /\ thr = ThrInit
    /\ \E code \in Codes, dir \in StorageDirs :
          web = [WebInit EXCEPT !.access_code = code, !.files = dir]
    /\ cfg = CfgInit

NextWeb ==
    \/ \E session \in Sessions, client_id \in ClientIds \cup {Absent},
          can_receive \in BOOLEAN, host \in RemoteHosts :
          WsHello(session, "hello", client_id, can_receive, web.access_code, host, {})
    \/ \E fn \in UploadNames, size \in 1..MaxUploadSize,
          client_id \in ClientIds \cup {Absent}, target_ids \in TargetIds,
          code \in SuppliedCodes, header \in Codes, dead \in SUBSET Sessions :
          UploadFile(fn, size, client_id, target_ids, code, header, dead)

SpecWeb == InitWeb /\ [][NextWeb]_vars

\* the stored files: clients join, a file is uploaded, files are listed and
\* deleted
InitFiles == InitWeb /\ web.files = EmptyMap

NextFiles ==
    \/ \E session \in Sessions :
          \E client_id \in ClientIds, can_receive \in BOOLEAN,
             host \in (IF session = "s1" THEN {"127.0.0.1"} ELSE {}) \cup RemoteHosts :
          WsHello(session, "hello", client_id, can_receive, web.access_code, host, {})
    \/ \E fn \in {DotFile, [dir |-> "", stem |-> "a", ext |-> ".txt"]},
          client_id \in ClientIds \cup {Absent},
          target_ids \in {<<>>, <<"c2">>, <<"c1", "c2">>, <<"", "c2">>} :
          UploadFile(fn, MaxUploadSize, client_id, target_ids, Absent, web.access_code, {})
    \/ \E client_id \in ClientIds \cup {Absent}, supplied \in {web.access_code, "no"} :
          ListFiles(client_id, supplied)
    \/ \E name \in {"a.txt", ".env"}, host \in {"127.0.0.1"} \cup RemoteHosts,
          client_id \in ClientIds \cup {Absent}, supplied \in {web.access_code, "no"} :
          DeleteFile(name, host, client_id, supplied)

SpecFiles == InitFiles /\ [][NextFiles]_vars

\* the client registry alone: channels join, change mode, send notes, kick
\* and leave
InitRoster == InitWeb /\ web.files = EmptyMap

NextRoster ==
    \/ \E session \in Sessions, client_id \in {"c1", Absent},
          can_receive \in BOOLEAN, code \in {"pw", "no"}, host \in Hosts,
          dead \in SUBSET Sessions :
          WsHello(session, "hello", client_id, can_receive, code, host, dead)
    \/ \E session \in Sessions, first \in FirstMessages \ {"hello"},
          code \in {"", "pw"}, host \in RemoteHosts :
          WsHello(session, first, Absent, TRUE, code, host, {})
    \/ \E session \in Sessions, can_receive \in BOOLEAN, dead \in SUBSET Sessions :
          WsMode(session, can_receive, dead)
    \/ \E session \in Sessions, dead \in SUBSET Sessions : WsDisconnect(session, dead)
    \/ \E session \in Sessions, target \in Sessions \cup {Absent},
          code \in {"pw", "no"}, dead \in SUBSET Sessions :
          WsKick(session, target, code, dead)
    \/ \E session \in Sessions, to \in SUBSET Sessions, dead \in SUBSET Sessions :
          WsNote(session, to, dead)

SpecRoster == InitRoster /\ [][NextRoster]_vars

\* ---- a broadcast interleaved with the other channels' handlers ----
\* Each channel's handler is a coroutine of one event loop: at an await
\* (every send of broadcast's loop, server.py:127) the loop may run another
\* channel's handler. One roster broadcast, that of a "mode" message, is
\* followed send by send; the handlers that run in between are taken whole.

\* session ids are fresh uuids (server.py:465), so the registry, a dict, holds
\* them in the order they registered: a session registers here only when its
\* id comes after every registered one
SessionSeq == <<"s1", "s2">>
Rank(session) == CHOOSE k \in 1..Len(SessionSeq) : SessionSeq[k] = session
\* STATE["clients"].items(): the registered sessions in registration order
ItemsOrder(clients) == SelectSeq(SessionSeq, LAMBDA x : x \in DOMAIN clients)

\* ws_endpoint, server.py:444-488: a channel registers
BcastHello(session, can_receive, host) ==
    /\ \A x \in DOMAIN web.clients : Rank(x) < Rank(session)
    /\ WsHello(session, "hello", Absent, can_receive, web.access_code, host, {})

\* ws_endpoint, server.py:523-530: a channel ends; the handler that runs the
\* broadcast is inside broadcast and does not end here
BcastDisconnect(session) ==
    /\ ~(web.bc.status = "running" /\ web.bc.by = session)
    /\ WsDisconnect(session, {})

\* ws_endpoint, server.py:517-522, broadcast_clients, 198-209, and broadcast,
\* 122-124: a "mode" message sets can_receive, the roster is built and the
\* loop over STATE["clients"].items() begins
BcastStart(session, can_receive) ==
    /\ web.bc.status # "running"
    /\ session \in DOMAIN web.clients
    /\ LET clients == [web.clients EXCEPT ![session].can_receive = can_receive]
       IN  web' = [web EXCEPT
                     !.clients = clients,
                     !.roster = [items |-> RosterItems(clients), to |-> {}],
                     !.ev = [NoEvent EXCEPT !.op = "mode", !.roster = TRUE, !.open = TRUE],
                     !.bc = [status |-> "running", by |-> session,
                             todo |-> ItemsOrder(clients),
                             size |-> Cardinality(DOMAIN clients),
                             rcpt |-> DOMAIN clients, sent |-> {}, dead |-> {}]]
    /\ UNCHANGED <<xferVars, nt, reg, thr, cfg>>

\* the dict iterator's check at each step of the loop: the registry's size is
\* no longer the size it had when the loop began
ChangedSize(w) == Cardinality(DOMAIN w.clients) # w.bc.size

\* broadcast, server.py:124-129: one turn of the loop, the send to the next
\* session succeeds (ok) or raises and the session is put on the dead list
BcastSend(ok) ==
    /\ web.bc.status = "running"
    /\ ~ChangedSize(web)
    /\ web.bc.todo # <<>>
    /\ LET x == Head(web.bc.todo)
       IN  web' = [web EXCEPT
                     !.bc.todo = Tail(@),
                     !.bc.sent = IF ok THEN @ \cup {x} ELSE @,
                     !.bc.dead = IF ok THEN @ ELSE @ \cup {x},
                     !.roster.to = IF ok THEN @ \cup {x} ELSE @]
    /\ UNCHANGED <<xferVars, nt, reg, thr, cfg>>

\* broadcast, server.py:130-131: the loop is over, the dead sessions are popped
BcastEnd ==
    /\ web.bc.status = "running"
    /\ ~ChangedSize(web)
    /\ web.bc.todo = <<>>
    /\ web' = [web EXCEPT !.clients = broadcast(@, web.bc.dead),
                         !.bc.status = "done"]
    /\ UNCHANGED <<xferVars, nt, reg, thr, cfg>>

\* the loop's next step finds the registry's size changed: RuntimeError
\* (dictionary changed size during iteration) leaves broadcast at line 124
\* with the dead list unused; ws_endpoint catches it (525-526) and its finally
\* clause drops the session and broadcasts the roster (527-530)
BcastRaise ==
    /\ web.bc.status = "running"
    /\ ChangedSize(web)
    /\ web' = [broadcast_clients(
                 [web EXCEPT !.clients = broadcast(@, {web.bc.by})], {})
               EXCEPT !.bc.status = "failed",
                      !.ev = [NoEvent EXCEPT !.op = "disconnect", !.roster = TRUE]]
    /\ UNCHANGED <<xferVars, nt, reg, thr, cfg>>

InitBcast == InitWeb /\ web.files = EmptyMap

NextBcast ==
    \/ \E session \in Sessions, can_receive \in BOOLEAN, host \in Hosts :
          BcastHello(session, can_receive, host)
    \/ \E session \in Sessions : BcastDisconnect(session)
    \/ \E session \in Sessions, can_receive \in BOOLEAN : BcastStart(session, can_receive)
    \/ \E ok \in BOOLEAN : BcastSend(ok)
    \/ BcastEnd
    \/ BcastRaise

SpecBcast == InitBcast /\ [][NextBcast]_vars

\* ---- uploads interleaved with each other and with listings ----
\* upload_file is a coroutine: between its awaits (each read of the body,
\* server.py:415, and the push, 437-440) the event loop runs other handlers.
\* Here a stored file is the sequence of its chunks, each tagged with the
\* upload that wrote it.

\* number of chunks of an upload's body
MaxChunks == 2

\* f.write at the position of the upload's own file object
WriteAt(content, pos, b) ==
    IF pos <= Len(content) THEN [content EXCEPT ![pos] = b]
    ELSE content \o [i \in 1..(pos - 1 - Len(content)) |-> "hole"] \o <<b>>

\* upload_file, server.py:389-413: the code and the receivers are checked
\* (401, 409), the name is allocated and the file created empty by open("wb");
\* no await lies between unique_path and open
UpBegin(u, fn, total, client_id, target_ids, code, header) ==
    LET res == ResolveTargets(web.clients, client_id, target_ids)
        dest == unique_path(web.files, fn)
    IN  /\ web.up[u].st = "idle"
        /\ IF ~require_code(web.access_code, Supplied(code, header))
           THEN web' = [web EXCEPT !.up[u] = [NoUp EXCEPT !.st = "refused", !.status = 401]]
           ELSE IF ~res.ok
           THEN web' = [web EXCEPT !.up[u] = [NoUp EXCEPT !.st = "refused", !.status = 409]]
           ELSE web' = [web EXCEPT
                          !.files = Put(@, dest, <<>>),
                          !.up[u] = [st |-> "writing", dest |-> dest, total |-> total,
                                     wrote |-> 0, client_id |-> client_id,
                                     targets |-> res.targets, all |-> res.all,
                                     status |-> 0]]
        /\ UNCHANGED <<xferVars, nt, reg, thr, cfg>>

\* upload_file, server.py:414-419: one chunk is read and written
UpChunk(u) ==
    /\ web.up[u].st = "writing"
    /\ web.up[u].wrote < web.up[u].total
    /\ web.up[u].dest \in DOMAIN web.files
    /\ web' = [web EXCEPT
                  !.files[web.up[u].dest] = WriteAt(@, web.up[u].wrote + 1, u),
                  !.up[u].wrote = @ + 1]
    /\ UNCHANGED <<xferVars, nt, reg, thr, cfg>>

\* upload_file, server.py:416-441: the body is at its end; the FileRecord is
\* stored under dest.name and the notification pushed (to the targets'
\* sessions or to all); dead are the sessions whose send fails
UpEnd(u, dead) ==
    LET r == web.up[u]
        to == IF r.all THEN DOMAIN web.clients ELSE TargetSessions(web.clients, r.targets)
        failing == IF r.all \/ dead = {} THEN dead ELSE {CHOOSE x \in dead : TRUE}
    IN  /\ r.st = "writing"
        /\ r.wrote = r.total
        /\ dead \subseteq to
        /\ Cardinality(dead) <= 1
        /\ web' = [web EXCEPT
                      !.file_index = Put(@, r.dest, [targets |-> r.targets, all |-> r.all,
                                                    size |-> r.total]),
                      !.clients = broadcast(@, failing),
                      !.up[u].st = "done",
                      !.up[u].status = IF r.all \/ dead = {} THEN 200 ELSE 500]
        /\ UNCHANGED <<xferVars, nt, reg, thr, cfg>>

\* download_file, server.py:346-358
\*   401  require_code refuses (348)
\*   403  the file is hidden from client_id (351-354)
\*   404  no such file (355-357)
DownloadFile(name, client_id, supplied) ==
    LET answer(status) == [NoResponse EXCEPT !.op = "download", !.status = status]
    IN  /\ web' = [web EXCEPT !.resp =
                     IF ~require_code(web.access_code, supplied) THEN answer(401)
                     ELSE IF Hidden(web.file_index, name, client_id) THEN answer(403)
                     ELSE IF name \notin DOMAIN web.files THEN answer(404)
                     ELSE [op |-> "download", status |-> 200, names |-> {name}]]
        /\ UNCHANGED <<xferVars, nt, reg, thr, cfg>>

\* what the storage directory holds when the server starts
StoredBefore == {EmptyMap, [p \in {"a.txt"} |-> <<"old">>]}

InitUp ==
    /\ disk = EmptyMap
    /\ partials = EmptyMap
    /\ rcv = RcvInit
    /\ snd = SndInit
    /\ chan = ChanInit
    /\ cur = CurInit
    /\ pre = Summary(CurInit, EmptyMap)
    /\ nconn = 0
    /\ ncancel = 0
    /\ nrestart = 0
    /\ nt = NtInit
    /\ reg = RegInit
    /\ thr = ThrInit
    /\ \E code \in Codes, dir \in StoredBefore :
          web = [WebInit EXCEPT !.access_code = code, !.files = dir]
    /\ cfg = CfgInit

NextUp ==
    \/ \E session \in Sessions, client_id \in ClientIds :
          WsHello(session, "hello", client_id, TRUE, web.access_code, "192.168.1.7", {})
    \/ \E u \in UploadSlots, fn \in UploadNames,
          client_id \in {"c1", Absent}, target_ids \in {<<>>, <<"c2">>} :
          /\ u = "u1" \/ web.up["u1"].st # "idle"
          /\ UpBegin(u, fn, MaxChunks, client_id, target_ids, Absent, web.access_code)
    \/ \E u \in UploadSlots : UpChunk(u)
    \/ \E u \in UploadSlots : UpEnd(u, {})
    \/ \E client_id \in ClientIds \cup {Absent} : ListFiles(client_id, web.access_code)
    \/ \E client_id \in ClientIds \cup {Absent} :
          DownloadFile("a.txt", client_id, web.access_code)

\* the slots are labels: the second is taken once the first is in use
SpecUp == InitUp /\ [][NextUp]_vars

\* the steps that carry a ReceiverThread.stop call forward
ReceiverStopSteps == StopWake \/ AcceptWake \/ StopReturn

\* C18: a ReceiverThread.stop call in progress can always go on: stop() makes
\* its connection, the accept loop takes it and exits, or wait() returns;
\* whatever the settings are by then.
C18_StopUnblocks ==
    thr.gui \in {"stop_connect", "stop_wait"} => ENABLED ReceiverStopSteps

\* the steps that carry a ListenerThread.stop call forward without a datagram
ListenerStopSteps == ListenerRecv \/ ListenerStopReturn

\* C19: a ListenerThread.stop call in progress can always go on, also when no
\* datagram is waiting.
C19_ListenerStopUnblocks ==
    thr.gui = "lstop_wait" => ENABLED ListenerStopSteps

\* the last request was an upload made while no connected client other than the
\* uploader had can_receive
LonelyUpload ==
    /\ web.last.op = "upload"
    /\ web.last.receiving0 \ {web.last.client_id} = {}

\* the last request wrote no file and added no record to the index
WroteNothing ==
    /\ web.files = web.last.files0
    /\ web.file_index = web.last.index0

\* C20 as stated: an upload made while no connected client other than the
\* uploader can receive is answered with the no-receivers conflict (409),
\* writes no file and adds no record to the index.
C20_NoReceiversConflict ==
    LonelyUpload => web.last.status = 409 /\ WroteNothing

\* C20 amended: such an upload is rejected, with the invalid-access-code error
\* (401) when an access code is configured and the request does not supply
\* it, otherwise with the no-receivers conflict (409); it writes no file and
\* adds no record to the index.
C20_Rejected ==
    LonelyUpload =>
        /\ web.last.status =
              (IF web.access_code # "" /\ web.last.supplied # web.access_code
               THEN 401 ELSE 409)
        /\ WroteNothing

\* the uploader itself is connected and can receive, nobody else can, and the
\* upload passed the access-code check
C20_Witness ==
    /\ LonelyUpload
    /\ web.last.status = 409
    /\ web.last.receiving0 = {web.last.client_id}
    /\ web.files # EmptyMap

\* the sessions other than the uploader's that can receive
OtherReceivers(clients, client_id) ==
    { x \in DOMAIN clients : clients[x].can_receive /\ clients[x].client_id # client_id }

\* the sessions of the uploader
UploaderSessions(clients, client_id) ==
    { x \in DOMAIN clients : clients[x].client_id = client_id }

\* C21: an upload made while exactly one connected client other than the
\* uploader can receive succeeds, and its push reaches that receiver, the
\* uploader and no other connected session.  Stated for the requests that
\* give the uploader's client id, pass the access-code check, name no target
\* that is not a receiver and meet no failing send.
C21_OneReceiverPush ==
    [][(/\ web'.nup = web.nup + 1
        /\ web'.last.client_id # Absent
        /\ Cardinality(OtherReceivers(web.clients, web'.last.client_id)) = 1
        /\ web'.last.status \notin {401, 409}
        /\ web'.last.failed = {})
       => (/\ web'.last.status = 200
           /\ web'.last.pushed =
                 OtherReceivers(web.clients, web'.last.client_id)
                    \cup UploaderSessions(web.clients, web'.last.client_id))]_vars

\* the stored files that were uploaded with an explicit target list
Targeted(w) ==
    { n \in DOMAIN w.file_index \cap DOMAIN w.files : w.file_index[n].targets # <<>> }

C23_BadHelloRejected ==
    [][(/\ web'.ev.op = "hello"
        /\ web.access_code # ""
        /\ ~(web'.ev.first = "hello" /\ web'.ev.code = web.access_code))
       => (/\ web'.clients = web.clients
           /\ web'.roster = web.roster
           /\ ~web'.ev.welcome
           /\ ~web'.ev.roster
           /\ ~web'.ev.open)]_vars

\* a hello with a wrong code was closed (1008) while another session was
\* registered
C23_Witness ==
    /\ web.ev.op = "hello"
    /\ web.access_code # ""
    /\ web.ev.first = "hello"
    /\ web.ev.code # web.access_code
    /\ web.ev.close = 1008
    /\ web.clients # EmptyMap

\* C24: the is_admin flag of a registered client is true exactly when its
\* channel's transport address is loopback or the host's LAN address; so
\* hellos from one address get the same flag whatever else they carry.
C24_AdminByAddress ==
    \A x \in DOMAIN web.clients :
        web.clients[x].is_admin <=> web.clients[x].host \in {"127.0.0.1", "::1", LanIp}

\* two registered clients with the same client id and different addresses,
\* one an admin and one not
C24_Witness ==
    \E x, y \in DOMAIN web.clients :
        /\ web.clients[x].client_id = web.clients[y].client_id
        /\ web.clients[x].is_admin
        /\ ~web.clients[y].is_admin

\* C25: a delete request from a transport address that is neither loopback
\* nor the host's LAN address is rejected (it is not answered 200) and leaves
\* the storage directory and the file index as they were, whatever client id
\* and code the request carries.
C25_RemoteDeleteRejected ==
    [][\A name \in {"a.txt", ".env"}, host \in RemoteHosts,
          client_id \in ClientIds \cup {Absent}, supplied \in SuppliedCodes :
          DeleteFile(name, host, client_id, supplied)
          => /\ web'.resp.status # 200
             /\ web'.files = web.files
             /\ web'.file_index = web.file_index]_vars

\* C26: a kick message sent by a session whose is_admin flag is false closes
\* no channel and removes no session from the registry.
C26_KickNeedsAdmin ==
    [][(/\ web'.ev.op = "kick"
        /\ web'.ev.by \in DOMAIN web.clients
        /\ ~web.clients[web'.ev.by].is_admin)
       => (/\ web'.ev.close = 0
           /\ web'.clients = web.clients)]_vars

\* C27: every handler that changes the registry's membership or a client's
\* can_receive flag ends with the full roster of the registry as it is then
\* having been broadcast to all the clients that remain (when any remains).
C27_RosterFollowsChange ==
    [][(/\ RosterItems(web'.clients) # RosterItems(web.clients)
        /\ web'.clients # EmptyMap)
       => (/\ web'.roster.items = RosterItems(web'.clients)
           /\ DOMAIN web'.clients \subseteq web'.roster.to)]_vars

\* C28: a broadcast in which some sends fail ends without failing, has sent
\* the message to every other session that was registered when it began, and
\* removes from the registry exactly the sessions whose send failed.
C28_BroadcastTolerant ==
    [][(/\ web.bc.status = "running"
        /\ web'.bc.status \in {"done", "failed"}
        /\ web'.bc.dead # {})
       => (/\ web'.bc.status = "done"
           /\ web'.bc.sent = web'.bc.rcpt \ web'.bc.dead
           /\ DOMAIN web'.clients = DOMAIN web.clients \ web'.bc.dead)]_vars

\* C29: when a send fails during the push of an upload with explicit targets,
\* the upload is still answered 200, the sessions whose send failed are the
\* ones dropped from the registry, and every other session of a target got
\* the notification.
C29_TargetedPushTolerant ==
    [][(/\ web'.nup = web.nup + 1
        /\ web'.last.failed # {}
        /\ web'.last.name \in DOMAIN web'.file_index
        /\ web'.file_index[web'.last.name].targets # <<>>)
       => (/\ web'.last.status = 200
           /\ DOMAIN web'.clients = DOMAIN web.clients \ web'.last.failed
           /\ web'.last.pushed =
                 TargetSessions(web.clients, web'.file_index[web'.last.name].targets)
                    \ web'.last.failed)]_vars

\* the upload that has just been stored came with explicit target ids
GivenTargets(l) == l.target_ids # <<>> /\ l.target_ids # <<"">>

\* the target set the claim describes for the upload l that met the registry
\* clients: the requested ids of connected receivers other than the uploader,
\* plus the uploader's client id (when the request carries one)
ExpectedTargets(clients, l) ==
    (Elems(l.target_ids)
        \cap { clients[x].client_id :
                 x \in { y \in DOMAIN clients :
                           clients[y].can_receive /\ clients[y].client_id # l.client_id } })
    \cup (IF l.client_id # Absent THEN {l.client_id} ELSE {})

\* an upload has just been stored
Stored ==
    /\ web'.nup = web.nup + 1
    /\ web'.last.status = 200
    /\ web'.last.name \in DOMAIN web'.file_index

\* the stored files whose FileRecord has no target set
Untargeted(w) ==
    { n \in DOMAIN w.file_index \cap DOMAIN w.files : w.file_index[n].targets = <<>> }

Allocated == { u \in UploadSlots : web.up[u].st \in {"writing", "done"} }

\* C31: uploads of the same filename that run interleaved have distinct
\* storage names; each one's file holds its own chunks and nothing else, all
\* of them once the upload has ended, and the index then holds a FileRecord
\* of its own under that name.
C31_DistinctPaths ==
    /\ \A u, v \in Allocated : u # v => web.up[u].dest # web.up[v].dest
    /\ \A u \in Allocated :
          LET r == web.up[u]
          IN  /\ r.dest \in DOMAIN web.files
              /\ web.files[r.dest] = [i \in 1..r.wrote |-> u]
              /\ r.st = "done" =>
                    /\ r.wrote = r.total
                    /\ r.dest \in DOMAIN web.file_index
                    /\ web.file_index[r.dest] =
                          [targets |-> r.targets, all |-> r.all, size |-> r.total]

\* two uploads of a.txt are both half written
C31_Witness ==
    \A u \in UploadSlots :
        /\ web.up[u].st = "writing"
        /\ web.up[u].wrote = 1
        /\ web.up[u].total = MaxChunks

C33_Dispatch ==
    [][(Pending /\ cur'.id = chan.id /\ cur.id # chan.id)
       => IF chan.fault = "short_header"
          THEN /\ cur'.kind = "short"
               /\ partials' = partials
               /\ disk' = disk
               /\ rcv'.pc = "accept"
          ELSE /\ cur'.kind = Decode(chan.header)
               /\ rcv'.pc \in {"accept", "recv"}]_vars

\* the connection being served is a Resume that the receiver answered with an
\* offset below the filesize and whose partial file it opened
ResumeGoing ==
    /\ cur.kind = "resume"
    /\ cur.branch # "complete"
    /\ cur.status \in {"recv", "saved", "paused"}
    /\ cur.offset < cur.size
    /\ snd.id = cur.id

\* what the partial file held when the Resume was accepted
HeldBefore == IF Exists(cur.disk0, cur.part) THEN cur.disk0[cur.part] ELSE <<>>

\* C34: in a Resume exchange not answered as already complete the reply is the
\* size the partial file had on disk (0 if there was none); the sender has
\* sent no payload byte while it waits for the reply; what it has sent after
\* it are the source bytes from the offset on, all of them when it ends with
\* success; and the receiver's file holds the earlier bytes followed by the
\* bytes received.
C34_ResumeExchange ==
    /\ (snd.resume /\ snd.pc = "wait") => (snd.payload = 0 /\ chan.data = <<>>)
    /\ ResumeGoing =>
          /\ cur.offset = Len(HeldBefore)
          /\ IF snd.offset < 0
             THEN snd.payload = 0 /\ cur.got \o chan.data = <<>>
             ELSE /\ snd.offset = cur.offset
                  /\ cur.got \o chan.data = SubSeq(cur.src, cur.offset + 1, snd.sent)
          /\ snd.status = "resumed" => snd.sent = cur.size
          /\ IF cur.status = "saved"
             THEN disk[cur.final] = HeldBefore \o cur.got
             ELSE disk[cur.part] = HeldBefore \o cur.got

\* a Resume answered with an offset above 0 has been completed
C34_Witness ==
    /\ ResumeGoing
    /\ cur.offset > 0
    /\ cur.status = "saved"
    /\ cur.got # <<>>
    /\ snd.status = "resumed"

\* C35: the peer registry holds no entry whose address is this node's own
\* current address (_current_ip), also after the local address changed while
\* the announcer was running.
C35_NoSelfEntry == reg.current_ip \notin DOMAIN reg.peers

\* C36: whenever the receiver is between connections (blocked in accept),
\* every entry of the partial table names a partial file that exists on disk
\* and holds fewer bytes than the filesize of the entry's key.
C36_EntriesBacked ==
    rcv.pc = "accept" =>
       \A k \in DOMAIN partials :
          /\ Exists(disk, partials[k].part)
          /\ Size(disk, partials[k].part) < k[2]

\* the step in which the receiver renames a partial file to its final name
Completes ==
    /\ cur'.status = "saved"
    /\ cur.status # "saved" \/ cur'.id # cur.id

\* C37: completing a transfer never overwrites a completed file: the partial
\* file is renamed to the final name only when no file of that name exists.
C37_NoOverwrite ==
    [][Completes => ~Exists(disk, cur'.final)]_vars

\* the step in which the receiver handles a Cancel request
Cancels == cur'.kind = "cancel" /\ cur'.id # cur.id

\* C38: a Cancel for filename f leaves unchanged the table entries whose key
\* filename differs from f and their partial files, and leaves unchanged the
\* completed files (here: the file the transfer before saved).
C38_CancelFrame ==
    [][Cancels =>
         /\ \A k \in DOMAIN partials :
               k[1] # cur'.name =>
                  /\ k \in DOMAIN partials' /\ partials'[k] = partials[k]
                  /\ Exists(disk, partials[k].part) =>
                        /\ Exists(disk', partials[k].part)
                        /\ disk'[partials[k].part] = disk[partials[k].part]
         /\ (cur.status = "saved" /\ Exists(disk, cur.final)) =>
               /\ Exists(disk', cur.final)
               /\ disk'[cur.final] = disk[cur.final]]_vars

\* client_id is outside the target set of the targeted upload in slot u, which
\* has been started (its bytes are being written, or it is finished)
Outside(u, client_id) ==
    /\ web.up[u].st \in {"writing", "done"}
    /\ web.up[u].targets # <<>>
    /\ client_id \notin Elems(web.up[u].targets)

\* C39: from the start of a targeted upload onwards, also while its bytes are
\* written and before its FileRecord is stored, the file is not in the listing
\* of a client id outside its target set and is not served to such a client id.
C39_TargetedHidden ==
    [][\A u \in UploadSlots, client_id \in ClientIds \cup {Absent} :
          Outside(u, client_id) =>
             /\ ListFiles(client_id, web.access_code) =>
                   web.up[u].dest \notin web'.resp.names
             /\ DownloadFile("a.txt", client_id, web.access_code) =>
                   ~(web.up[u].dest = "a.txt" /\ web'.resp.status = 200)]_vars

\* C40: a session leaves the registry only through its own disconnect or a
\* failed send on its own channel (no kick and no malformed message occur
\* here), and a broadcast in progress is not aborted by another session
\* joining or leaving.
C40_OwnCauseOnly ==
    [][/\ \A x \in DOMAIN web.clients \ DOMAIN web'.clients :
             \/ web'.bc = web.bc /\ WsDisconnect(x, {})
             \/ x \in web.bc.dead
       /\ web.bc.status = "running" => web'.bc.status # "failed"]_vars

====
